---- MODULE Spec2Model ----
(***************************************************************************)
(* Suspicion scoring of quiz sessions.                                     *)
(*                                                                         *)
(* Two implementations of the scoring engine are modelled side by side:    *)
(*   - the PL/pgSQL procedure compute_suspicion_for_session and its batch  *)
(*     driver recompute_suspicion_for_all_completed;                       *)
(*   - the inline computation of updateQuizSession (status = completed).   *)
(*                                                                         *)
(* Units and arithmetic.  time_spent is held in tenths of a second, so     *)
(* that 3.4 s is the integer 34.  Quotients are exact rationals, held as   *)
(* <<numerator, denominator>> in lowest terms; a rate of the summary is    *)
(* the integer number of thousandths it rounds to.  PostgreSQL numeric is  *)
(* read as exact arithmetic.  Of IEEE doubles the quotient of two counts   *)
(* is modelled with its rounding direction, which toFixed(3) sees; the     *)
(* weighted sum of the score is read as exact.  The explicit roundings of  *)
(* the source (round(.,3), toFixed(3), ::int) are modelled.                *)
(***************************************************************************)
EXTENDS Integers, Sequences, FiniteSets, TLC

VARIABLES
    profile,              \* which family of answer events this run draws from
    quiz_sessions,        \* table quiz_sessions: id -> row
    quiz_question_logs,   \* table quiz_question_logs: session id -> rows, in id order
    sessions,             \* the client's local session state: id -> row
    inlineRun,            \* history: <<r>>, what the latest scoring block of updateQuizSession computed
    batchRun,             \* history: <<r>>, what the latest compute_suspicion_for_session computed
    recompute,            \* the running call of recompute_suspicion_for_all_completed
    call,                 \* the running call of updateQuizSession, taken await by await
    probe                 \* a text and the word counts the two helpers gave for it

vars == <<profile, quiz_sessions, quiz_question_logs, sessions, inlineRun, batchRun, recompute,
         call, probe>>

----------------------------------------------------------------------------
(* Bounds of the model *)

MaxRichLen == 2      \* longest log drawn from the field-rich events
MaxTieLen == 3       \* longest log whose rows tie on answered_at or lack it
MaxLongLen == 11     \* longest log of the family for windows
MaxRoundLen == 8     \* longest log of the families with fractional times and with streaks
MaxShuffle == 3      \* logs up to this length are fetched in every order
MaxSessions == 2     \* sessions in the table when the batch driver runs
MaxTextLen == 4      \* longest text handed to the word-count helpers
MaxScenarioLen == 10 \* longest log of the families of uniform sessions
MaxTotal == 80       \* largest number of rows whose rates are rounded
MaxSpeedTotal == 100 \* largest number of rows whose speed-accuracy flag is taken
MaxWrong == 4        \* most wrong answers among the rows answered within 2 seconds
MaxTierLen == 120    \* rows of a long log scored next to a threshold
MaxRatioRows == 1    \* rows of a long log that are fast only against their expected time

(* Program constants *)

window_size == 10               \* sliding window length (both paths)
WordyMinWords == 14             \* (v_q_words + v_a_words) >= 14
HighPointMinPts == 4            \* v_pts >= 4
HighValueMinPts == 6            \* p.val >= 6
Fast3DenseMin == 8              \* count(time <= 3) >= 8
HighValueDenseMin == 3          \* count(points >= 6 and time <= 3) >= 3
StreakMin == 5                  \* max_consec_fast2 >= 5
WeightWordy == 30               \* 0.30, in hundredths
WeightHighPoint == 25           \* 0.25
WeightTimeRatio == 20           \* 0.20
WeightSpeedAccuracy == 15       \* 0.15
WeightStreakOrBlock == 10       \* 0.10
RedMin == 25                    \* 0.25, in hundredths
AmberMin == 15                  \* 0.15

Null == 0 - 1                   \* SQL NULL / JS null of a numeric column

----------------------------------------------------------------------------
(* Small helpers *)

Max(a, b) == IF a >= b THEN a ELSE b
Min(a, b) == IF a <= b THEN a ELSE b

RECURSIVE GCD(_, _)
GCD(a, b) == IF b = 0 THEN a ELSE GCD(b, a % b)

\* The rational n/d (d > 0, n >= 0) in lowest terms.
Rat(n, d) == LET g == GCD(n, d) IN <<n \div g, d \div g>>

RatGeq(x, y) == x[1] * y[2] >= y[1] * x[2]
RatGt(x, y) == x[1] * y[2] > y[1] * x[2]

\* n/d rounded to 3 decimals (half up), as a number of thousandths.
Round3(n, d) == (2000 * n + d) \div (2 * d)

Range(f) == {f[i] : i \in DOMAIN f}

Reverse(s) == [i \in 1..Len(s) |-> s[Len(s) + 1 - i]]

\* All orderings of the elements of a sequence without repeated elements.
Perms(s) == {p \in [1..Len(s) -> Range(s)] : Range(p) = Range(s)}

----------------------------------------------------------------------------
(* Texts.  A text is a sequence of characters: "w" a non-blank character,  *)
(* "s" a space, "t" another white-space character (tab, newline); or the   *)
(* value NullText where the JSON member is missing.                        *)

NullText == <<"null">>

\* White space (\s), the one character trim() of PostgreSQL strips, and the rest.
Blanks == {"s", "t"}
Spaces == {"s"}
WordChars == {"w"}

\* n words separated by single spaces.
Words(n) == [i \in 1..(IF n = 0 THEN 0 ELSE 2 * n - 1) |-> IF i % 2 = 1 THEN "w" ELSE "s"]

\* s without its leading and trailing characters of the set cs.
Strip(s, cs) ==
    LET keep == {i \in DOMAIN s : s[i] \notin cs}
    IN  IF keep = {} THEN <<>>
        ELSE SubSeq(s, CHOOSE i \in keep : \A j \in keep : i <= j,
                       CHOOSE i \in keep : \A j \in keep : i >= j)

\* Number of maximal runs of characters of the set cs.
Runs(s, cs) == Cardinality({i \in DOMAIN s : s[i] \in cs /\ (i = 1 \/ s[i - 1] \notin cs)})

\* word_count(p_text): trim() strips spaces only; regexp_split_to_array
\* returns one piece more than there are matches of \s+, the empty string
\* giving the one-element array {""}.
word_count(p_text) ==
    LET trimmed == Strip(IF p_text = NullText THEN <<>> ELSE p_text, Spaces)
    IN  1 + Runs(trimmed, Blanks)

\* normalizeText: anything that is not a string becomes ''.
normalizeText(s) == IF s = NullText THEN <<>> ELSE s

\* countWords: trim() strips all white space; the non-empty pieces are counted.
countWords(s) ==
    LET trimmed == Strip(s, Blanks)
    IN  IF trimmed = <<>> THEN 0 ELSE Runs(trimmed, WordChars)

----------------------------------------------------------------------------
(* Rows.  A row of quiz_question_logs is a record                          *)
(*   [id, question_id, total_points_possible, time_spent, is_correct,      *)
(*    show_answer_used, answered_at, created_at]                           *)
(* with Null for a missing number and "null" for a missing boolean.  The   *)
(* questions column of a session is [kind, elems]: kind "array" with the   *)
(* question objects [id, question, answer] in elems, kind "object" for a   *)
(* JSON value that is no array, kind "null" for SQL NULL.                  *)

\* A faulty default: a missing number becomes 0 whatever the column.
CoalesceToZero(x, d) == IF x = Null THEN 0 ELSE x

Coalesce(x, d) == IF x = Null THEN d ELSE x
CoalesceBool(b) == b = "true"

\* order by answered_at nulls last, created_at nulls last, id
NullsLastLess(x, y) == x # Null /\ (y = Null \/ x < y)

SqlBefore(a, b) ==
    \/ NullsLastLess(a.answered_at, b.answered_at)
    \/ /\ a.answered_at = b.answered_at
       /\ \/ NullsLastLess(a.created_at, b.created_at)
          \/ a.created_at = b.created_at /\ a.id < b.id

\* The ordered cursor, built by inserting each row at its place.
SqlInsert(sorted, r) ==
    LET k == Cardinality({i \in DOMAIN sorted : SqlBefore(sorted[i], r)})
    IN  SubSeq(sorted, 1, k) \o <<r>> \o SubSeq(sorted, k + 1, Len(sorted))

RECURSIVE SqlOrderedPrefix(_, _)
SqlOrderedPrefix(rows, n) ==
    IF n = 0 THEN <<>> ELSE SqlInsert(SqlOrderedPrefix(rows, n - 1), rows[n])

SqlOrdered(rows) == SqlOrderedPrefix(rows, Len(rows))

\* select q from jsonb_array_elements(coalesce(v_questions,'[]')) q
\* where q->>'id' = r.question_id limit 1
SqlLookup(v_questions, question_id) ==
    IF v_questions.kind = "object" THEN [raised |-> TRUE, question |-> NullText, answer |-> NullText]
    ELSE LET hits == {i \in DOMAIN v_questions.elems : v_questions.elems[i].id = question_id}
         IN  IF hits = {} THEN [raised |-> FALSE, question |-> NullText, answer |-> NullText]
             ELSE LET q == v_questions.elems[CHOOSE i \in hits : \A j \in hits : i <= j]
                  IN  [raised |-> FALSE, question |-> q.question, answer |-> q.answer]

\* v_time::int, numeric to integer: rounds to the nearest, halves away from zero.
NumericToInt(tenths) == (tenths + 5) \div 10

SqlAcc0 ==
    [raised |-> FALSE, v_total |-> 0,
     c_fast_correct |-> 0, c_ultra_fast |-> 0, c_zero_one |-> 0,
     c_show_answer_fast |-> 0, c_highpoint_ultrafast |-> 0,
     c_wordy_ultrafast |-> 0, c_time_ratio_low |-> 0,
     c_fast2_total |-> 0, c_fast2_correct |-> 0,
     max_consec_fast2 |-> 0, streak_fast2 |-> 0,
     flag_window_fast3 |-> FALSE, flag_window_highvalue_fast |-> FALSE,
     arr_times |-> <<>>, arr_points |-> <<>>]

B2N(b) == IF b THEN 1 ELSE 0

\* A faulty push: a full window drops the entry just pushed.
SqlPushKeepsOldest(arr, v) ==
    LET a == Append(arr, v)
    IN  IF Len(a) > window_size THEN SubSeq(a, 1, window_size) ELSE a

\* A faulty push: the window is never trimmed.
SqlPushUntrimmed(arr, v) == Append(arr, v)

\* push into sliding window, keeping the last window_size entries
SqlPush(arr, v) ==
    LET a == Append(arr, v)
    IN  IF Len(a) > window_size THEN SubSeq(a, 2, Len(a)) ELSE a

\* count(*) from unnest(arr_times) where val <= 3
SqlFast3Count(arr_times) == Cardinality({i \in DOMAIN arr_times : arr_times[i] <= 3})

\* count(*) from unnest(arr_points) p join unnest(arr_times) t on true
\* where p.val >= 6 and t.val <= 3: every pair of a point entry and a time entry
SqlHighValueFastCount(arr_points, arr_times) ==
    Cardinality({i \in DOMAIN arr_points : arr_points[i] >= HighValueMinPts})
    * Cardinality({j \in DOMAIN arr_times : arr_times[j] <= 3})

\* A faulty streak: a slower row leaves the current streak standing.
SqlStreakNoReset(streak_fast2, v_time) ==
    IF v_time <= 20 THEN streak_fast2 + 1 ELSE streak_fast2

\* The streak counters after one row.
SqlStreak(streak_fast2, v_time) == IF v_time <= 20 THEN streak_fast2 + 1 ELSE 0

\* A faulty window: the flag is the verdict on the current window alone.
SqlFast3DenseCurrentOnly(flag_window_fast3, times) == SqlFast3Count(times) >= Fast3DenseMin

\* "if (select count(*) ... where val <= 3) >= 8 then flag_window_fast3 := true"
SqlFast3Dense(flag_window_fast3, times) ==
    flag_window_fast3 \/ SqlFast3Count(times) >= Fast3DenseMin

\* The counters, streak, window and flags after one row, given the row's
\* defaulted fields, its word count and the pushed window arrays.
SqlAccumulate(acc, v_pts, v_time, v_correct, v_show, words, v_tmin, v_expected, streak, times, points) ==
    [raised |-> FALSE,
     v_total |-> acc.v_total + 1,
     c_fast_correct |-> acc.c_fast_correct + B2N(v_correct /\ v_time > 0 /\ v_time < v_tmin),
     c_ultra_fast |-> acc.c_ultra_fast + B2N(v_correct /\ v_time <= 20),
     c_zero_one |-> acc.c_zero_one + B2N(v_correct /\ v_time <= 10),
     c_show_answer_fast |-> acc.c_show_answer_fast + B2N(v_show /\ v_correct /\ v_time <= 20),
     c_highpoint_ultrafast |-> acc.c_highpoint_ultrafast
            + B2N(v_correct /\ v_pts >= HighPointMinPts /\ v_time <= 30),
     c_wordy_ultrafast |-> acc.c_wordy_ultrafast
            + B2N(v_correct /\ words >= WordyMinWords /\ v_time <= 20),
     c_time_ratio_low |-> acc.c_time_ratio_low
            + B2N(v_correct /\ v_expected > 0 /\ 10 * v_time <= 3 * v_expected),
     c_fast2_total |-> acc.c_fast2_total + B2N(v_time <= 20),
     c_fast2_correct |-> acc.c_fast2_correct + B2N(v_time <= 20 /\ v_correct),
     streak_fast2 |-> streak,
     max_consec_fast2 |-> IF streak > acc.max_consec_fast2 THEN streak ELSE acc.max_consec_fast2,
     arr_times |-> times,
     arr_points |-> points,
     flag_window_fast3 |-> SqlFast3Dense(acc.flag_window_fast3, times),
     flag_window_highvalue_fast |-> acc.flag_window_highvalue_fast
            \/ SqlHighValueFastCount(points, times) >= HighValueDenseMin]

\* A faulty minimum: 2 seconds whatever the points.
SqlTminFlat(v_pts) == 20

\* v_tmin := greatest(2, 2 * v_pts), in tenths of a second
SqlTmin(v_pts) == 10 * Max(2, 2 * v_pts)

\* v_expected := v_tmin + 0.2 * (v_q_words + v_a_words), in tenths
SqlExpected(v_pts, words) == SqlTmin(v_pts) + 2 * words

SqlWithQuestion(acc, v_pts, v_time, v_correct, v_show, v_q) ==
    IF acc.raised \/ v_q.raised THEN [acc EXCEPT !.raised = TRUE]
    ELSE SqlAccumulate(acc, v_pts, v_time, v_correct, v_show,
                       word_count(v_q.question) + word_count(v_q.answer),
                       SqlTmin(v_pts),
                       SqlExpected(v_pts, word_count(v_q.question) + word_count(v_q.answer)),
                       SqlStreak(acc.streak_fast2, v_time),
                       SqlPush(acc.arr_times, NumericToInt(v_time)),
                       SqlPush(acc.arr_points, v_pts))

\* A faulty iteration: v_correct keeps its value of the previous iteration,
\* as the running streak shows it, when the row has no is_correct.
SqlLoopBodyStaleCorrect(acc, r, v_questions) ==
    SqlWithQuestion(acc,
                    Coalesce(r.total_points_possible, 1),
                    Coalesce(r.time_spent, 0),
                    IF r.is_correct = "null" THEN acc.streak_fast2 > 0
                    ELSE CoalesceBool(r.is_correct),
                    CoalesceBool(r.show_answer_used),
                    SqlLookup(v_questions, r.question_id))

\* One iteration of the loop over the log rows.
SqlLoopBody(acc, r, v_questions) ==
    SqlWithQuestion(acc,
                    Coalesce(r.total_points_possible, 1),
                    Coalesce(r.time_spent, 0),
                    CoalesceBool(r.is_correct),
                    CoalesceBool(r.show_answer_used),
                    SqlLookup(v_questions, r.question_id))

\* The loop over the first k rows of the ordered cursor.
RECURSIVE SqlLoop(_, _, _)
SqlLoop(rows, k, v_questions) ==
    IF k = 0 THEN SqlAcc0
    ELSE SqlLoopBody(SqlLoop(rows, k - 1, v_questions), rows[k], v_questions)

\* A faulty flag: a share of exactly 0.3 does not count.
SqlSpeedAccuracyFlagAbove(acc) ==
    B2N(/\ 10 * acc.c_fast2_total > 3 * acc.v_total
        /\ acc.c_fast2_total > 0
        /\ 10 * acc.c_fast2_correct >= 9 * acc.c_fast2_total)

\* speed_accuracy_flag: fast2_share >= 0.3 and fast2_accuracy >= 0.9
SqlSpeedAccuracyFlag(acc) ==
    B2N(/\ 10 * acc.c_fast2_total >= 3 * acc.v_total
        /\ acc.c_fast2_total > 0
        /\ 10 * acc.c_fast2_correct >= 9 * acc.c_fast2_total)

SqlStreakOrBlockFlag(acc) ==
    B2N(acc.max_consec_fast2 >= StreakMin \/ acc.flag_window_fast3 \/ acc.flag_window_highvalue_fast)

\* A faulty weighted sum: the weights of the time-ratio rate and of the
\* speed-accuracy flag are exchanged.
SqlWeightedSumSwapped(acc) ==
    WeightWordy * acc.c_wordy_ultrafast
    + WeightHighPoint * acc.c_highpoint_ultrafast
    + WeightSpeedAccuracy * acc.c_time_ratio_low
    + WeightTimeRatio * SqlSpeedAccuracyFlag(acc) * acc.v_total
    + WeightStreakOrBlock * SqlStreakOrBlockFlag(acc) * acc.v_total

\* A faulty weighted sum: the weights add up to 1.05.
SqlWeightedSumOverweight(acc) ==
    (WeightWordy + 5) * acc.c_wordy_ultrafast
    + WeightHighPoint * acc.c_highpoint_ultrafast
    + WeightTimeRatio * acc.c_time_ratio_low
    + WeightSpeedAccuracy * SqlSpeedAccuracyFlag(acc) * acc.v_total
    + WeightStreakOrBlock * SqlStreakOrBlockFlag(acc) * acc.v_total

\* The weighted sum, in hundredths, over v_total.
SqlWeightedSum(acc) ==
    WeightWordy * acc.c_wordy_ultrafast
    + WeightHighPoint * acc.c_highpoint_ultrafast
    + WeightTimeRatio * acc.c_time_ratio_low
    + WeightSpeedAccuracy * SqlSpeedAccuracyFlag(acc) * acc.v_total
    + WeightStreakOrBlock * SqlStreakOrBlockFlag(acc) * acc.v_total

\* "if v_score > 1 then v_score := 1", on the sum n/d
Cap(n, d) == IF n > d THEN <<1, 1>> ELSE Rat(n, d)

\* v_score
SqlScore(acc) ==
    IF acc.v_total > 0 THEN Cap(SqlWeightedSum(acc), 100 * acc.v_total) ELSE <<0, 1>>

\* A faulty tiering: the thresholds are exclusive.
SqlStatusExclusive(v_score) ==
    IF RatGt(v_score, <<RedMin, 100>>) THEN "red"
    ELSE IF RatGt(v_score, <<AmberMin, 100>>) THEN "amber"
    ELSE "green"

\* case when v_score >= 0.25 then 'red' when v_score >= 0.15 then 'amber' else 'green'
SqlStatus(v_score) ==
    IF RatGeq(v_score, <<RedMin, 100>>) THEN "red"
    ELSE IF RatGeq(v_score, <<AmberMin, 100>>) THEN "amber"
    ELSE "green"

\* round(rate, 3) of c / v_total, 0 when v_total = 0
SqlRate(c, v_total) == IF v_total > 0 THEN Round3(c, v_total) ELSE 0

SqlSummary(acc) ==
    [fastCorrectRate |-> SqlRate(acc.c_fast_correct, acc.v_total),
     ultraFastRate |-> SqlRate(acc.c_ultra_fast, acc.v_total),
     zeroOneRate |-> SqlRate(acc.c_zero_one, acc.v_total),
     showAnswerFastRate |-> SqlRate(acc.c_show_answer_fast, acc.v_total),
     highPointUltraFastRate |-> SqlRate(acc.c_highpoint_ultrafast, acc.v_total),
     wordyUltraFastRate |-> SqlRate(acc.c_wordy_ultrafast, acc.v_total),
     timeRatioLowRate |-> SqlRate(acc.c_time_ratio_low, acc.v_total),
     fast2Share |-> SqlRate(acc.c_fast2_total, acc.v_total),
     fast2Accuracy |-> IF acc.v_total > 0 /\ acc.c_fast2_total > 0
                       THEN Round3(acc.c_fast2_correct, acc.c_fast2_total) ELSE 0,
     maxConsecutiveFast2OrLess |-> acc.max_consec_fast2,
     windowFast3OrLessDense |-> acc.flag_window_fast3,
     windowHighValueFastDense |-> acc.flag_window_highvalue_fast,
     totalQuestions |-> acc.v_total]

\* What one call computes: the ordered cursor, the accumulators after the
\* loop, and the three values it writes.
SqlOutcome(cursor, acc, v_score) ==
    [raised |-> acc.raised,
     cursor |-> cursor,
     acc |-> acc,
     suspicion_score |-> v_score,
     suspicion_status |-> SqlStatus(v_score),
     suspicious_summary |-> SqlSummary(acc)]

SqlAfterLoop(cursor, acc) == SqlOutcome(cursor, acc, SqlScore(acc))

SqlOnCursor(cursor, v_questions) == SqlAfterLoop(cursor, SqlLoop(cursor, Len(cursor), v_questions))

SqlCompute(rows, v_questions) == SqlOnCursor(SqlOrdered(rows), v_questions)

----------------------------------------------------------------------------
(* The inline computation of updateQuizSession.                            *)

\* Number(x) || d: a missing value and 0 both give d.
NumberOr(x, d) == IF x = Null \/ x = 0 THEN d ELSE x

\* Array.isArray(currentSession.questions) ? currentSession.questions : []
TsQuestionsArray(currentSession) ==
    IF currentSession.questions.kind = "array" THEN currentSession.questions.elems ELSE <<>>

\* questionById.get(qId): of several entries with one id the Map keeps the last.
TsLookup(questionsArray, qId) ==
    LET hits == {i \in DOMAIN questionsArray : questionsArray[i].id = qId}
    IN  IF qId = "" \/ hits = {} THEN [question |-> NullText, answer |-> NullText]
        ELSE LET q == questionsArray[CHOOSE i \in hits : \A j \in hits : i >= j]
             IN  [question |-> q.question, answer |-> q.answer]

\* a?.answered_at ? new Date(a.answered_at).getTime() : 0
TsSortKey(r) == IF r.answered_at = Null THEN 0 ELSE r.answered_at

\* [...timeAgg].sort((a, b) => ta - tb): a stable sort of the fetched rows.
TsInsert(sorted, r) ==
    LET k == Cardinality({i \in DOMAIN sorted : TsSortKey(sorted[i]) <= TsSortKey(r)})
    IN  SubSeq(sorted, 1, k) \o <<r>> \o SubSeq(sorted, k + 1, Len(sorted))

RECURSIVE TsSortedPrefix(_, _)
TsSortedPrefix(timeAgg, n) ==
    IF n = 0 THEN <<>> ELSE TsInsert(TsSortedPrefix(timeAgg, n - 1), timeAgg[n])

TsSorted(timeAgg) == TsSortedPrefix(timeAgg, Len(timeAgg))

TsAcc0 ==
    [countFastCorrect |-> 0, countUltraFast |-> 0, countZeroOne |-> 0,
     countShowAnswerFast |-> 0, countHighPointUltraFast |-> 0,
     countWordyUltraFast |-> 0, countTimeRatioLow |-> 0,
     numFast2OrLess |-> 0, numFast2OrLessCorrect |-> 0,
     maxConsecutiveFast2OrLess |-> 0, currentStreakFast2OrLess |-> 0,
     perLog |-> <<>>]

\* A faulty streak: answers of up to 3 seconds go on with it.
TsStreakWithin3(currentStreakFast2OrLess, time) ==
    IF time <= 30 THEN currentStreakFast2OrLess + 1 ELSE 0

TsStreak(currentStreakFast2OrLess, time) == IF time <= 20 THEN currentStreakFast2OrLess + 1 ELSE 0

\* The counters and streak after one row, given its defaulted fields.
TsAccumulate(acc, pts, time, correct, showAns, words, tmin, expected, streak) ==
    [countFastCorrect |-> acc.countFastCorrect + B2N(correct /\ time > 0 /\ time < tmin),
     countUltraFast |-> acc.countUltraFast + B2N(correct /\ time <= 20),
     countZeroOne |-> acc.countZeroOne + B2N(correct /\ time <= 10),
     countShowAnswerFast |-> acc.countShowAnswerFast + B2N(showAns /\ correct /\ time <= 20),
     countHighPointUltraFast |-> acc.countHighPointUltraFast
            + B2N(correct /\ pts >= HighPointMinPts /\ time <= 30),
     countWordyUltraFast |-> acc.countWordyUltraFast
            + B2N(correct /\ words >= WordyMinWords /\ time <= 20),
     countTimeRatioLow |-> acc.countTimeRatioLow
            + B2N(correct /\ expected > 0 /\ 10 * time <= 3 * expected),
     numFast2OrLess |-> acc.numFast2OrLess + B2N(time <= 20),
     numFast2OrLessCorrect |-> acc.numFast2OrLessCorrect + B2N(time <= 20 /\ correct),
     currentStreakFast2OrLess |-> streak,
     maxConsecutiveFast2OrLess |->
         IF streak > acc.maxConsecutiveFast2OrLess THEN streak ELSE acc.maxConsecutiveFast2OrLess,
     perLog |-> Append(acc.perLog, [time |-> time, correct |-> correct, pts |-> pts])]

\* tmin = Math.max(2, 2 * pts), in tenths of a second
TsTmin(pts) == 10 * Max(2, 2 * pts)

\* expected = tmin + 0.2 * (qWords + aWords), in tenths
TsExpected(pts, words) == TsTmin(pts) + 2 * words

\* qWords + aWords
TsWords(qMeta) == countWords(normalizeText(qMeta.question)) + countWords(normalizeText(qMeta.answer))

TsWithWords(acc, pts, time, correct, showAns, words) ==
    TsAccumulate(acc, pts, time, correct, showAns, words, TsTmin(pts), TsExpected(pts, words),
                 TsStreak(acc.currentStreakFast2OrLess, time))

\* One iteration of "for (const r of logs)".
TsLoopBody(acc, r, questionsArray) ==
    TsWithWords(acc,
                NumberOr(r.total_points_possible, 1),
                NumberOr(r.time_spent, 0),
                CoalesceBool(r.is_correct),
                CoalesceBool(r.show_answer_used),
                TsWords(TsLookup(questionsArray, r.question_id)))

RECURSIVE TsLoop(_, _, _)
TsLoop(logs, k, questionsArray) ==
    IF k = 0 THEN TsAcc0
    ELSE TsLoopBody(TsLoop(logs, k - 1, questionsArray), logs[k], questionsArray)

\* A faulty count: the threshold is 30 seconds instead of 3.
TsFast3OrLessCountTenfold(window) == Cardinality({i \in DOMAIN window : window[i].time <= 300})

\* window.filter(x => x.time <= 3).length
TsFast3OrLessCount(window) == Cardinality({i \in DOMAIN window : window[i].time <= 30})

\* window.filter(x => x.pts >= 6 && x.time <= 3).length
TsHighValueFastCount(window) ==
    Cardinality({i \in DOMAIN window : window[i].pts >= HighValueMinPts /\ window[i].time <= 30})

\* A faulty test of a window: it takes more than 8 fast answers, and more
\* than 3 high-value ones.
TsWindowFlagsAbove(flags, window) ==
    [fast3 |-> flags.fast3 \/ TsFast3OrLessCount(window) > Fast3DenseMin,
     highValue |-> flags.highValue \/ TsHighValueFastCount(window) > HighValueDenseMin]

\* The window scans from position i on (positions from 1), with the flags so
\* far; the scan stops once both flags are set.
TsWindowFlags(flags, window) ==
    [fast3 |-> flags.fast3 \/ TsFast3OrLessCount(window) >= Fast3DenseMin,
     highValue |-> flags.highValue \/ TsHighValueFastCount(window) >= HighValueDenseMin]

RECURSIVE TsWindowScan(_, _, _)
TsWindowNext(perLog, i, f) ==
    IF f.fast3 /\ f.highValue THEN f ELSE TsWindowScan(perLog, i + 1, f)

TsWindowScan(perLog, i, flags) ==
    IF i > Len(perLog) THEN flags
    ELSE TsWindowNext(perLog, i,
            TsWindowFlags(flags, SubSeq(perLog, i, Min(Len(perLog), i - 1 + window_size))))

TsSpeedAccuracyFlag(acc, total) ==
    B2N(/\ 10 * acc.numFast2OrLess >= 3 * total
        /\ acc.numFast2OrLess > 0
        /\ 10 * acc.numFast2OrLessCorrect >= 9 * acc.numFast2OrLess)

TsStreakOrBlockFlag(acc, flags) ==
    B2N(acc.maxConsecutiveFast2OrLess >= StreakMin \/ flags.fast3 \/ flags.highValue)

\* A faulty weighted sum: the high-point term is subtracted.
TsWeightedSumSignSlip(acc, flags, total) ==
    WeightWordy * acc.countWordyUltraFast
    - WeightHighPoint * acc.countHighPointUltraFast
    + WeightTimeRatio * acc.countTimeRatioLow
    + WeightSpeedAccuracy * TsSpeedAccuracyFlag(acc, total) * total
    + WeightStreakOrBlock * TsStreakOrBlockFlag(acc, flags) * total

\* The weighted sum, in hundredths, over total.
TsWeightedSum(acc, flags, total) ==
    WeightWordy * acc.countWordyUltraFast
    + WeightHighPoint * acc.countHighPointUltraFast
    + WeightTimeRatio * acc.countTimeRatioLow
    + WeightSpeedAccuracy * TsSpeedAccuracyFlag(acc, total) * total
    + WeightStreakOrBlock * TsStreakOrBlockFlag(acc, flags) * total

\* score, with "if (score > 1) score = 1"
TsScore(acc, flags, total) == Cap(TsWeightedSum(acc, flags, total), 100 * total)

\* A faulty tiering: a score of exactly 0.25 is amber.
TsStatusRedAbove(score) ==
    IF RatGt(score, <<RedMin, 100>>) THEN "red"
    ELSE IF RatGeq(score, <<AmberMin, 100>>) THEN "amber"
    ELSE "green"

\* score >= 0.25 ? 'red' : score >= 0.15 ? 'amber' : 'green'
TsStatus(score) ==
    IF RatGeq(score, <<RedMin, 100>>) THEN "red"
    ELSE IF RatGeq(score, <<AmberMin, 100>>) THEN "amber"
    ELSE "green"

\* c / total in IEEE double arithmetic is the quotient rounded to 53
\* significant bits.  The quotient is developed by long division: the
\* numerator is doubled until it reaches the denominator (the leading bit),
\* then 52 more bits follow, 13 at a step (2^13 = 8192); rem is the
\* remainder and odd tells whether the last bit is 1.
RECURSIVE LeadingRemainder(_, _)
LeadingRemainder(c, total) == IF c >= total THEN c - total ELSE LeadingRemainder(2 * c, total)

RECURSIVE MantissaRemainder(_, _, _, _)
MantissaRemainder(rem, odd, total, bits) ==
    IF bits = 0 THEN [rem |-> rem, odd |-> odd]
    ELSE MantissaRemainder((8192 * rem) % total,
                           ((8192 * rem) \div total) % 2 = 1, total, bits - 13)

\* Whether the double c / total is below the quotient (-1), equal to it (0)
\* or above it (1): round to nearest, ties to even (0 < c).
DoubleSide(m, total) ==
    IF m.rem = 0 THEN 0
    ELSE IF 2 * m.rem > total \/ (2 * m.rem = total /\ m.odd) THEN 1
    ELSE 0 - 1

DoubleError(c, total) ==
    DoubleSide(MantissaRemainder(LeadingRemainder(c, total), TRUE, total, 52), total)

\* The quotient lies exactly half way between two numbers of thousandths.
HalfThousandth(c, total) == (2000 * c) % total = 0 /\ ((2000 * c) \div total) % 2 = 1

\* Number((c / total).toFixed(3)), in thousandths: toFixed takes the number
\* of thousandths nearest to the double, the larger of two equally near.
\* Away from a half thousandth the double and the quotient round alike.
TsRate(c, total) ==
    IF c > 0 /\ HalfThousandth(c, total) /\ DoubleError(c, total) < 0
    THEN (1000 * c) \div total
    ELSE Round3(c, total)

\* const total = Math.max(1, logs.length)
TsTotal(logs) == Max(1, Len(logs))

TsSummary(acc, flags, total) ==
    [fastCorrectRate |-> TsRate(acc.countFastCorrect, total),
     ultraFastRate |-> TsRate(acc.countUltraFast, total),
     zeroOneRate |-> TsRate(acc.countZeroOne, total),
     showAnswerFastRate |-> TsRate(acc.countShowAnswerFast, total),
     highPointUltraFastRate |-> TsRate(acc.countHighPointUltraFast, total),
     wordyUltraFastRate |-> TsRate(acc.countWordyUltraFast, total),
     timeRatioLowRate |-> TsRate(acc.countTimeRatioLow, total),
     fast2Share |-> TsRate(acc.numFast2OrLess, total),
     fast2Accuracy |-> IF acc.numFast2OrLess > 0
                       THEN TsRate(acc.numFast2OrLessCorrect, acc.numFast2OrLess) ELSE 0,
     maxConsecutiveFast2OrLess |-> acc.maxConsecutiveFast2OrLess,
     windowFast3OrLessDense |-> flags.fast3,
     windowHighValueFastDense |-> flags.highValue,
     totalQuestions |-> total]

\* What the scoring block computes from the fetched rows (timeAgg) and the
\* local session: the sorted logs, the counters, the window flags, the score
\* and the three values of sessionUpdates.
TsOutcome(logs, total, acc, flags, score) ==
    [logs |-> logs,
     total |-> total,
     acc |-> acc,
     flags |-> flags,
     score |-> score,
     suspicion_status |-> TsStatus(score),
     suspicion_score |-> Rat(Round3(score[1], score[2]), 1000),
     suspicious_summary |-> TsSummary(acc, flags, total)]

TsAfterScan(logs, total, acc, flags) == TsOutcome(logs, total, acc, flags, TsScore(acc, flags, total))

TsAfterLoop(logs, total, acc) ==
    TsAfterScan(logs, total, acc, TsWindowScan(acc.perLog, 1, [fast3 |-> FALSE, highValue |-> FALSE]))

TsOnLogs(logs, questionsArray) ==
    TsAfterLoop(logs, TsTotal(logs), TsLoop(logs, Len(logs), questionsArray))

TsCompute(timeAgg, currentSession) == TsOnLogs(TsSorted(timeAgg), TsQuestionsArray(currentSession))

----------------------------------------------------------------------------
(* The inputs the model draws from.                                        *)

\* The question set stored on a session: empty texts, 10 + 4 words,
\* 13 words with an empty answer, 3 + 2 words.
QuestionBank ==
    <<[id |-> "q0", question |-> Words(0), answer |-> Words(0)],
      [id |-> "q14", question |-> Words(10), answer |-> Words(4)],
      [id |-> "q13", question |-> Words(13), answer |-> Words(0)],
      [id |-> "q5", question |-> Words(3), answer |-> Words(2)]>>

StoredQuestions == [kind |-> "array", elems |-> QuestionBank]

Event(q, pts, time, correct, show) ==
    [question_id |-> q, total_points_possible |-> pts, time_spent |-> time,
     is_correct |-> correct, show_answer_used |-> show]

\* Field-rich events: missing fields, an unmatched question id, high points,
\* long texts.
RichEvents ==
    {Event("qx", 4, 30, "true", "false"),
     Event("q13", 6, 10, "true", "null"),
     Event("q14", 1, 20, "true", "true"),
     Event("q0", Null, 20, "true", "true"),
     Event("q0", 1, Null, "null", "null"),
     Event("q0", 6, 300, "false", "false")}

\* Small families for logs longer than the window, for rows that tie on
\* answered_at, for rows whose question is not in the snapshot, and for rows
\* at and next to the 0.3 boundary of time over expected time, and for
\* sessions answered in 1 second or in 30 seconds throughout.
ProfileEvents(p) ==
    CASE p = "rich" -> RichEvents
      [] p = "ties" -> {Event("q0", 1, 20, "true", "false"), Event("q0", 1, 50, "true", "false")}
      [] p = "streak" -> {Event("q0", 4, 10, "true", "false"), Event("q0", 1, 30, "true", "false")}
      [] p = "highvalue" -> {Event("q0", 6, 30, "false", "false"), Event("q0", 1, 50, "false", "false")}
      [] p = "round" -> {Event("q0", 1, 34, "false", "false"), Event("q0", 1, 50, "false", "false")}
      [] p = "unmatched" -> {Event("qx", 1, 7, "true", "false"), Event("qx", 6, 20, "true", "false")}
      [] p = "quick" -> {Event("q0", 1, 10, "true", "false")}
      [] p = "slow" -> {Event("q0", 1, 300, "true", "false")}
      [] p = "ratio" -> {Event("q5", 1, 9, "true", "false"), Event("q5", 1, 10, "true", "false"),
                         Event("q0", 1, 7, "true", "false"), Event("q0", 5, 20, "true", "false")}

Profiles == {"rich", "ties", "streak", "highvalue", "round", "unmatched", "ratio", "quick", "slow"}

MaxLen(p) ==
    CASE p = "rich" -> MaxRichLen
      [] p = "ties" -> MaxTieLen
      [] p = "round" -> MaxRoundLen
      [] p = "streak" -> MaxRoundLen
      [] p = "unmatched" -> MaxRichLen
      [] p = "ratio" -> MaxRichLen
      [] p \in {"quick", "slow"} -> MaxScenarioLen
      [] OTHER -> MaxLongLen

\* The answered_at values an inserted row may carry: in the "ties" family a
\* missing one or one shared instant; otherwise the next instant.
Stamps(p, n) == IF p = "ties" THEN {Null, 1} ELSE {n + 1}

Row(e, id, answered_at) ==
    [id |-> id, question_id |-> e.question_id,
     total_points_possible |-> e.total_points_possible, time_spent |-> e.time_spent,
     is_correct |-> e.is_correct, show_answer_used |-> e.show_answer_used,
     answered_at |-> answered_at, created_at |-> id]

\* A select without "order by" returns the rows in an order the store picks.
FetchOrders(rows) == IF Len(rows) <= MaxShuffle THEN Perms(rows) ELSE {Reverse(rows)}

NoSummary == SqlSummary(SqlAcc0)

\* A row of quiz_sessions that was never scored: suspicion_status is NULL
\* ("null"); the score and summary columns, NULL as well, are held as 0 and
\* as the summary of an empty computation.
SessionRow(status, questions) ==
    [status |-> status, questions |-> questions,
     suspicion_status |-> "null", suspicion_score |-> <<0, 1>>, suspicious_summary |-> NoSummary]

Idle == [pc |-> "idle", queue |-> <<>>, n |-> 0, saved |-> <<>>]

\* No call of updateQuizSession has been made.
NoCall == [pc |-> "idle", s |-> 0, r |-> <<>>, wrote |-> FALSE, failed |-> "none"]

\* No text has been handed to the word-count helpers.
NoProbe == [text |-> NullText, word_count |-> Null, countWords |-> Null]

----------------------------------------------------------------------------
(* The engine on one session.                                              *)

Init ==
    /\ profile \in Profiles
    /\ quiz_sessions = [s \in {1} |-> SessionRow("active", StoredQuestions)]
    /\ quiz_question_logs = [s \in {1} |-> <<>>]
    /\ sessions = quiz_sessions
    /\ inlineRun = <<>>
    /\ batchRun = <<>>
    /\ recompute = Idle
    /\ call = NoCall
    /\ probe = NoProbe

\* The quiz page records one answered question of an active session.
InsertLog(s) ==
    /\ quiz_sessions[s].status = "active"
    /\ Len(quiz_question_logs[s]) < MaxLen(profile)
    /\ \E e \in ProfileEvents(profile),
          at \in Stamps(profile, Len(quiz_question_logs[s])) :
          quiz_question_logs' = [quiz_question_logs EXCEPT
              ![s] = Append(@, Row(e, Len(@) + 1, at))]
    /\ UNCHANGED <<profile, quiz_sessions, sessions, inlineRun, batchRun, recompute, call, probe>>

\* A faulty suspicion write: status and score go in one update, the summary
\* is left for a later one.
CompletedWithoutSummary(row, r, wrote) ==
    IF wrote
    THEN [row EXCEPT !.status = "completed",
                     !.suspicion_status = r.suspicion_status,
                     !.suspicion_score = r.suspicion_score]
    ELSE [row EXCEPT !.status = "completed"]

\* updateQuizSession(sessionId, {status: 'completed'}): the completion update,
\* then the scoring block (log fetch, computation, suspicion write), then the
\* local state update.  Each remote call may fail: outcome names the first
\* call that does.
Completed(row, r, wrote) ==
    IF wrote
    THEN [row EXCEPT !.status = "completed",
                     !.suspicion_status = r.suspicion_status,
                     !.suspicion_score = r.suspicion_score,
                     !.suspicious_summary = r.suspicious_summary]
    ELSE [row EXCEPT !.status = "completed"]

CompletionOutcome(s, r, outcome) ==
    IF outcome = "updateError" THEN UNCHANGED <<quiz_sessions, sessions, inlineRun>>
    ELSE
    /\ quiz_sessions' = [quiz_sessions EXCEPT ![s] = Completed(@, r, outcome = "ok")]
    /\ sessions' = [sessions EXCEPT ![s] = Completed(@, r, outcome = "ok")]
    /\ inlineRun' = IF outcome = "timeErr" THEN inlineRun ELSE <<r>>

CompletionOutcomes(s, r) ==
    \E outcome \in {"updateError", "timeErr", "suspErr", "ok"} : CompletionOutcome(s, r, outcome)

UpdateQuizSessionCompleted(s) ==
    /\ s \in DOMAIN sessions
    /\ \E timeAgg \in FetchOrders(quiz_question_logs[s]) :
          CompletionOutcomes(s, TsCompute(timeAgg, sessions[s]))
    /\ UNCHANGED <<profile, quiz_question_logs, batchRun, recompute, call, probe>>

\* A faulty update: the summary is merged into the stored one only where
\* the row has none yet.
SqlWriteMerging(row, r) ==
    [row EXCEPT !.suspicion_score = r.suspicion_score,
                !.suspicion_status = r.suspicion_status,
                !.suspicious_summary = IF row.suspicion_status = "null"
                                       THEN r.suspicious_summary ELSE @]

\* The update statement that ends compute_suspicion_for_session.
SqlWrite(row, r) ==
    [row EXCEPT !.suspicion_score = r.suspicion_score,
                !.suspicion_status = r.suspicion_status,
                !.suspicious_summary = r.suspicious_summary]

\* A faulty update: the statement lacks its "where qs.id = p_session_id".
SqlApplyEveryRow(s, r) ==
    /\ quiz_sessions' = IF r.raised THEN quiz_sessions
                        ELSE [x \in DOMAIN quiz_sessions |-> SqlWrite(quiz_sessions[x], r)]
    /\ batchRun' = <<r>>

\* compute_suspicion_for_session(p_session_id) called for a completed session.
\* An error raised in the loop leaves the row as it was.
SqlApply(s, r) ==
    /\ quiz_sessions' = IF r.raised THEN quiz_sessions
                        ELSE [quiz_sessions EXCEPT ![s] = SqlWrite(@, r)]
    /\ batchRun' = <<r>>

ComputeSuspicionForSession(s) ==
    /\ quiz_sessions[s].status = "completed"
    /\ SqlApply(s, SqlCompute(quiz_question_logs[s], quiz_sessions[s].questions))
    /\ UNCHANGED <<profile, quiz_question_logs, sessions, inlineRun, recompute, call, probe>>

Next ==
    \/ \E s \in DOMAIN quiz_sessions : InsertLog(s)
    \/ \E s \in DOMAIN quiz_sessions : UpdateQuizSessionCompleted(s)
    \/ \E s \in DOMAIN quiz_sessions : ComputeSuspicionForSession(s)

Spec == Init /\ [][Next]_vars

----------------------------------------------------------------------------
(* The batch driver on a table of sessions.                                *)

\* A questions column that holds a JSON object instead of an array.
ObjectQuestions == [kind |-> "object", elems |-> <<>>]

BatchLogs == {<<>>, <<Row(Event("q0", 1, 10, "true", "false"), 1, 1)>>}

InitBatch ==
    /\ profile = "batch"
    /\ quiz_sessions \in [1..MaxSessions ->
          {SessionRow(st, q) : st \in {"active", "completed"},
                               q \in {StoredQuestions, ObjectQuestions}}]
    /\ quiz_question_logs \in [1..MaxSessions -> BatchLogs]
    /\ sessions = quiz_sessions
    /\ inlineRun = <<>>
    /\ batchRun = <<>>
    /\ recompute = Idle
    /\ call = NoCall
    /\ probe = NoProbe

\* for r in select id from quiz_sessions where status = 'completed': the ids
\* the loop will visit, in an order the store picks.
CompletedIds(table) == {s \in DOMAIN table : table[s].status = "completed"}

CursorOrders(ids) == {q \in [1..Cardinality(ids) -> ids] : Range(q) = ids}

RecomputeStart ==
    /\ recompute.pc = "idle"
    /\ \E q \in CursorOrders(CompletedIds(quiz_sessions)) :
          recompute' = [pc |-> "loop", queue |-> q, n |-> 0, saved |-> quiz_sessions]
    /\ UNCHANGED <<profile, quiz_sessions, quiz_question_logs, sessions, inlineRun, batchRun,
                   call, probe>>

\* perform compute_suspicion_for_session(r.id); n := n + 1.  The function has
\* no exception block: an error raised by the call ends the driver, and the
\* statement that called it is rolled back with every row it had written.
RecomputeCall(s, r) ==
    /\ batchRun' = <<r>>
    /\ IF r.raised
       THEN /\ quiz_sessions' = recompute.saved
            /\ recompute' = [recompute EXCEPT !.pc = "raised", !.queue = <<>>]
       ELSE /\ quiz_sessions' = [quiz_sessions EXCEPT ![s] = SqlWrite(@, r)]
            /\ recompute' = [recompute EXCEPT !.queue = Tail(@), !.n = @ + 1]

RecomputeIterate ==
    /\ recompute.pc = "loop"
    /\ recompute.queue # <<>>
    /\ RecomputeCall(Head(recompute.queue),
                     SqlCompute(quiz_question_logs[Head(recompute.queue)],
                                quiz_sessions[Head(recompute.queue)].questions))
    /\ UNCHANGED <<profile, quiz_question_logs, sessions, inlineRun, call, probe>>

\* return n
RecomputeReturn ==
    /\ recompute.pc = "loop"
    /\ recompute.queue = <<>>
    /\ recompute' = [recompute EXCEPT !.pc = "returned"]
    /\ UNCHANGED <<profile, quiz_sessions, quiz_question_logs, sessions, inlineRun, batchRun,
                   call, probe>>

NextBatch == RecomputeStart \/ RecomputeIterate \/ RecomputeReturn

SpecBatch == InitBatch /\ [][NextBatch]_vars

----------------------------------------------------------------------------
(* Completion by the client, then the batch driver run again and again.    *)

InitRetry ==
    /\ profile = "retry"
    /\ quiz_sessions \in [1..MaxSessions ->
          {SessionRow("active", q) : q \in {StoredQuestions, ObjectQuestions}}]
    /\ quiz_question_logs \in [1..MaxSessions -> BatchLogs]
    /\ sessions = quiz_sessions
    /\ inlineRun = <<>>
    /\ batchRun = <<>>
    /\ recompute = Idle
    /\ call = NoCall
    /\ probe = NoProbe

\* The client completes an active session, between two runs of the driver.
CompleteSession(s) ==
    /\ recompute.pc # "loop"
    /\ quiz_sessions[s].status = "active"
    /\ UpdateQuizSessionCompleted(s)

\* select recompute_suspicion_for_all_completed(), issued once more.
RecomputeAgain ==
    /\ recompute.pc \in {"returned", "raised"}
    /\ recompute' = Idle
    /\ UNCHANGED <<profile, quiz_sessions, quiz_question_logs, sessions, inlineRun, batchRun,
                   call, probe>>

NextRetry ==
    \/ \E s \in DOMAIN quiz_sessions : CompleteSession(s)
    \/ RecomputeStart
    \/ RecomputeIterate
    \/ RecomputeReturn
    \/ RecomputeAgain

\* What an iteration of the driver's loop does to the driver: it ends it
\* with the error raised, or it goes on to the next id.
RecomputeLoopStep ==
    /\ recompute.pc = "loop"
    /\ recompute.queue # <<>>
    /\ recompute' \in {[recompute EXCEPT !.pc = "raised", !.queue = <<>>],
                       [recompute EXCEPT !.queue = Tail(@), !.n = @ + 1]}

\* The driver, once called, runs to its end, and it is called again.
SpecRetry ==
    /\ InitRetry /\ [][NextRetry]_vars
    /\ WF_vars(RecomputeStart) /\ WF_recompute(RecomputeLoopStep)
    /\ WF_vars(RecomputeReturn) /\ WF_vars(RecomputeAgain)

----------------------------------------------------------------------------
(* updateQuizSession taken await by await, next to engine calls, on a     *)
(* table of sessions whose logs no longer change.  One call of             *)
(* updateQuizSession is in flight at a time; call.pc names the request it  *)
(* is waiting on.  The time total, bonus XP, assignment and achievement    *)
(* calls of the handler are left out.                                      *)

\* The logs of these sessions: none; two fast high-value answers; two
\* answers without answered_at.
CallLogs ==
    <<<<>>,
      <<Row(Event("q0", 6, 10, "true", "false"), 1, 1),
        Row(Event("q0", 6, 10, "true", "false"), 2, 2)>>,
      <<Row(Event("q0", 1, 20, "true", "false"), 1, Null),
        Row(Event("q0", 1, 50, "true", "false"), 2, Null)>>>>

\* Session s holds the log that follows its neighbour's, from the k-th on.
CallLogOf(s, k) == CallLogs[((s + k) % Len(CallLogs)) + 1]

InitCalls ==
    /\ profile = "calls"
    /\ quiz_sessions = [s \in 1..MaxSessions |-> SessionRow("active", StoredQuestions)]
    /\ \E k \in 1..Len(CallLogs) :
          quiz_question_logs = [s \in 1..MaxSessions |-> CallLogOf(s, k)]
    /\ sessions = quiz_sessions
    /\ inlineRun = <<>>
    /\ batchRun = <<>>
    /\ recompute = Idle
    /\ call = NoCall
    /\ probe = NoProbe

\* updateQuizSession(sessionId, {status: 'completed'}) is called: the session
\* is found in the local state and the completion update is sent.
CallUpdateQuizSession(s) ==
    /\ call.pc \in {"idle", "returned", "threw"}
    /\ s \in DOMAIN sessions
    /\ call' = [NoCall EXCEPT !.pc = "update", !.s = s]
    /\ UNCHANGED <<profile, quiz_sessions, quiz_question_logs, sessions, inlineRun, batchRun,
                   recompute, probe>>

\* A faulty handling: the error of the completion update is logged and the
\* call goes on to the log fetch.
AnswerCompletionUpdateLenient ==
    /\ call.pc = "update"
    /\ \/ /\ call' = [call EXCEPT !.pc = "fetch", !.failed = "updateError"]
          /\ UNCHANGED quiz_sessions
       \/ /\ quiz_sessions' = [quiz_sessions EXCEPT ![call.s] = Completed(@, call.r, FALSE)]
          /\ call' = [call EXCEPT !.pc = "fetch"]
    /\ UNCHANGED <<profile, quiz_question_logs, sessions, inlineRun, batchRun, recompute, probe>>

\* The store answers the completion update: with an error, which the call
\* throws, or with the row completed; the call then sends the log fetch.
AnswerCompletionUpdate ==
    /\ call.pc = "update"
    /\ \/ /\ call' = [call EXCEPT !.pc = "threw", !.failed = "updateError"]
          /\ UNCHANGED quiz_sessions
       \/ /\ quiz_sessions' = [quiz_sessions EXCEPT ![call.s] = Completed(@, call.r, FALSE)]
          /\ call' = [call EXCEPT !.pc = "fetch"]
    /\ UNCHANGED <<profile, quiz_question_logs, sessions, inlineRun, batchRun, recompute, probe>>

\* A faulty handling: the error of the scoring step is thrown by the call.
ScoringFailedRethrown(c, why) == [c EXCEPT !.pc = "threw", !.failed = why]

\* The scoring step gives up: a returned error skips the rest of the block,
\* a thrown one is caught and logged; the call goes on to the local update.
ScoringFailed(c, why) == [c EXCEPT !.pc = "local", !.failed = why]

\* The fetched rows are scored and the suspicion write is sent.
FetchAnswered(r) ==
    /\ call' = [call EXCEPT !.pc = "write", !.r = <<r>>]
    /\ inlineRun' = <<r>>

\* The store answers the log fetch: with an error, with a rejected request,
\* or with the rows in an order it picks.
AnswerLogFetch ==
    /\ call.pc = "fetch"
    /\ \/ /\ \E why \in {"timeErr", "tErr"} : call' = ScoringFailed(call, why)
          /\ UNCHANGED inlineRun
       \/ \E timeAgg \in FetchOrders(quiz_question_logs[call.s]) :
             FetchAnswered(TsCompute(timeAgg, sessions[call.s]))
    /\ UNCHANGED <<profile, quiz_sessions, quiz_question_logs, sessions, batchRun, recompute, probe>>

\* The store answers the suspicion write: with an error, with a rejected
\* request, or with the three columns of the row written.
AnswerSuspicionWrite ==
    /\ call.pc = "write"
    /\ \/ /\ \E why \in {"suspErr", "tErr"} : call' = ScoringFailed(call, why)
          /\ UNCHANGED quiz_sessions
       \/ /\ quiz_sessions' = [quiz_sessions EXCEPT ![call.s] = Completed(@, call.r[1], TRUE)]
          /\ call' = [call EXCEPT !.pc = "local", !.wrote = TRUE]
    /\ UNCHANGED <<profile, quiz_question_logs, sessions, inlineRun, batchRun, recompute, probe>>

\* A faulty local update: the computed values are merged into the local
\* session whether or not the suspicion write went through.
CallLocalUpdateUnchecked ==
    /\ call.pc = "local"
    /\ sessions' = [sessions EXCEPT ![call.s] =
            Completed(@, IF call.r # <<>> THEN call.r[1] ELSE call.r, call.r # <<>>)]
    /\ call' = [call EXCEPT !.pc = "returned"]
    /\ UNCHANGED <<profile, quiz_sessions, quiz_question_logs, inlineRun, batchRun, recompute, probe>>

\* setSessions(...) merges finalUpdates into the local session; the call returns.
CallLocalUpdate ==
    /\ call.pc = "local"
    /\ sessions' = [sessions EXCEPT ![call.s] =
            Completed(@, IF call.wrote THEN call.r[1] ELSE call.r, call.wrote)]
    /\ call' = [call EXCEPT !.pc = "returned"]
    /\ UNCHANGED <<profile, quiz_sessions, quiz_question_logs, inlineRun, batchRun, recompute, probe>>

NextCalls ==
    \/ \E s \in DOMAIN quiz_sessions : CallUpdateQuizSession(s)
    \/ AnswerCompletionUpdate
    \/ AnswerLogFetch
    \/ AnswerSuspicionWrite
    \/ CallLocalUpdate
    \/ \E s \in DOMAIN quiz_sessions : ComputeSuspicionForSession(s)

\* The handler's own continuation runs once it is ready; nothing obliges the
\* store to answer a request.
SpecCalls == InitCalls /\ [][NextCalls]_vars /\ WF_vars(CallLocalUpdate)

----------------------------------------------------------------------------
(* The rounding of one rate in the two summaries.                          *)

NoRates == [count |-> 0, total |-> 1, round |-> Null, toFixed |-> Null]

\* A counter of count rows out of total rows of a log.
InitRates ==
    /\ profile = "rates"
    /\ quiz_sessions = <<>>
    /\ quiz_question_logs = <<>>
    /\ sessions = <<>>
    /\ inlineRun = <<>>
    /\ batchRun = <<>>
    /\ recompute = Idle
    /\ call = NoCall
    /\ \E total \in 1..MaxTotal : \E count \in 0..total :
          probe = [NoRates EXCEPT !.count = count, !.total = total]

\* round(coalesce(rate, 0)::numeric, 3)
RoundRate ==
    /\ probe.round = Null
    /\ probe' = [probe EXCEPT !.round = SqlRate(probe.count, probe.total)]
    /\ UNCHANGED <<profile, quiz_sessions, quiz_question_logs, sessions, inlineRun, batchRun,
                   recompute, call>>

\* Number(rate.toFixed(3))
ToFixedRate ==
    /\ probe.toFixed = Null
    /\ probe' = [probe EXCEPT !.toFixed = TsRate(probe.count, probe.total)]
    /\ UNCHANGED <<profile, quiz_sessions, quiz_question_logs, sessions, inlineRun, batchRun,
                   recompute, call>>

NextRates == RoundRate \/ ToFixedRate

SpecRates == InitRates /\ [][NextRates]_vars

----------------------------------------------------------------------------
(* The speed-accuracy flag and the two quotients it is taken from.         *)

NoSpeed == [total |-> 0, fast2 |-> 0, correct |-> 0, batch |-> <<>>, inline |-> <<>>]

\* The counters after the loop over a log of total rows, of which fast2
\* took at most 2 seconds, correct of these being correct.
InitSpeed ==
    /\ profile = "speed"
    /\ quiz_sessions = <<>>
    /\ quiz_question_logs = <<>>
    /\ sessions = <<>>
    /\ inlineRun = <<>>
    /\ batchRun = <<>>
    /\ recompute = Idle
    /\ call = NoCall
    /\ \E total \in 1..MaxSpeedTotal : \E fast2 \in 0..total :
          \E correct \in Max(0, fast2 - MaxWrong)..fast2 :
             probe = [NoSpeed EXCEPT !.total = total, !.fast2 = fast2, !.correct = correct]

SqlSpeedCounters(p) ==
    [SqlAcc0 EXCEPT !.v_total = p.total, !.c_fast2_total = p.fast2,
                    !.c_fast2_correct = p.correct, !.c_ultra_fast = p.correct]

TsSpeedCounters(p) ==
    [TsAcc0 EXCEPT !.numFast2OrLess = p.fast2, !.numFast2OrLessCorrect = p.correct,
                   !.countUltraFast = p.correct]

\* fast2_share, fast2_accuracy and speed_accuracy_flag after the loop
SqlSpeed(acc) ==
    [flag |-> SqlSpeedAccuracyFlag(acc),
     fast2Share |-> SqlSummary(acc).fast2Share,
     fast2Accuracy |-> SqlSummary(acc).fast2Accuracy]

\* fast2Share, fast2Accuracy and speedAccuracyFlag after the loop
TsSpeed(acc, total) ==
    [flag |-> TsSpeedAccuracyFlag(acc, total),
     fast2Share |-> TsRate(acc.numFast2OrLess, total),
     fast2Accuracy |-> IF acc.numFast2OrLess > 0
                       THEN TsRate(acc.numFast2OrLessCorrect, acc.numFast2OrLess) ELSE 0]

BatchSpeed ==
    /\ probe.batch = <<>>
    /\ probe' = [probe EXCEPT !.batch = <<SqlSpeed(SqlSpeedCounters(probe))>>]
    /\ UNCHANGED <<profile, quiz_sessions, quiz_question_logs, sessions, inlineRun, batchRun,
                   recompute, call>>

InlineSpeed ==
    /\ probe.inline = <<>>
    /\ probe' = [probe EXCEPT !.inline = <<TsSpeed(TsSpeedCounters(probe), Max(1, probe.total))>>]
    /\ UNCHANGED <<profile, quiz_sessions, quiz_question_logs, sessions, inlineRun, batchRun,
                   recompute, call>>

NextSpeed == BatchSpeed \/ InlineSpeed

SpecSpeed == InitSpeed /\ [][NextSpeed]_vars

----------------------------------------------------------------------------
(* The two word-count helpers on one text.                                 *)

\* The texts of at most n characters.
TextsUpTo(n) == UNION {[1..k -> Blanks \cup WordChars] : k \in 0..n}

\* A question's text: missing, or a short text.
InitWords ==
    /\ profile = "words"
    /\ quiz_sessions = <<>>
    /\ quiz_question_logs = <<>>
    /\ sessions = <<>>
    /\ inlineRun = <<>>
    /\ batchRun = <<>>
    /\ recompute = Idle
    /\ call = NoCall
    /\ \E text \in TextsUpTo(MaxTextLen) \cup {NullText} : probe = [NoProbe EXCEPT !.text = text]

\* select word_count(v_q->>'question')
WordCount ==
    /\ probe.word_count = Null
    /\ probe' = [probe EXCEPT !.word_count = word_count(probe.text)]
    /\ UNCHANGED <<profile, quiz_sessions, quiz_question_logs, sessions, inlineRun, batchRun,
                   recompute, call>>

\* countWords(normalizeText(qMeta?.question))
CountWords ==
    /\ probe.countWords = Null
    /\ probe' = [probe EXCEPT !.countWords = countWords(normalizeText(probe.text))]
    /\ UNCHANGED <<profile, quiz_sessions, quiz_question_logs, sessions, inlineRun, batchRun,
                   recompute, call>>

NextWords == WordCount \/ CountWords

SpecWords == InitWords /\ [][NextWords]_vars

----------------------------------------------------------------------------
(* The client's session cache: the provider's sessions state as it is      *)
(* emptied, reloaded and refetched, next to completions.                   *)

\* A cached session object without a questions property.
NoQuestions == [kind |-> "undefined", elems |-> <<>>]

\* A row as the summary select returns it: "id, title, type, status,
\* total_points, ..." holds neither questions nor the suspicion columns.
SessionSummary(row) == SessionRow(row.status, NoQuestions)

\* createQuizSession has put the inserted row into the local state.
InitCache ==
    /\ profile = "rich"
    /\ quiz_sessions = [s \in {1} |-> SessionRow("active", StoredQuestions)]
    /\ quiz_question_logs = [s \in {1} |-> <<>>]
    /\ sessions = quiz_sessions
    /\ inlineRun = <<>>
    /\ batchRun = <<>>
    /\ recompute = Idle
    /\ call = NoCall
    /\ probe = NoProbe

\* The provider is mounted anew, or the user signs out: useState([]),
\* setSessions([]).
ResetSessions ==
    /\ sessions # <<>>
    /\ sessions' = <<>>
    /\ UNCHANGED <<profile, quiz_sessions, quiz_question_logs, inlineRun, batchRun, recompute, call, probe>>

\* { ...existing, ...s } for a summary s, and { ...existing, ...detailed }
\* over it for a session that is active in the store.
MergedSession(s) ==
    IF quiz_sessions[s].status = "active" THEN quiz_sessions[s]
    ELSE IF s \in DOMAIN sessions
         THEN [sessions[s] EXCEPT !.status = quiz_sessions[s].status]
         ELSE SessionSummary(quiz_sessions[s])

\* loadUserSessions: the summaries of the user's sessions, the full rows of
\* the active ones, merged into the local state.
LoadUserSessions ==
    /\ sessions' = [s \in DOMAIN quiz_sessions |-> MergedSession(s)]
    /\ UNCHANGED <<profile, quiz_sessions, quiz_question_logs, inlineRun, batchRun, recompute, call, probe>>

\* !Array.isArray(localSession.questions) || localSession.questions.length === 0
IsPartial(localSession) ==
    localSession.questions.kind # "array" \/ localSession.questions.elems = <<>>

\* loadQuizSessionAsync(sessionId): a session that is cached in full is
\* returned as it is; otherwise the row is fetched and merged into the
\* local state.
LoadQuizSessionAsync(s) ==
    /\ s \in DOMAIN sessions => IsPartial(sessions[s])
    /\ sessions' = [x \in DOMAIN sessions \cup {s} |->
                        IF x = s THEN quiz_sessions[s] ELSE sessions[x]]
    /\ UNCHANGED <<profile, quiz_sessions, quiz_question_logs, inlineRun, batchRun, recompute, call, probe>>

NextCache ==
    \/ \E s \in DOMAIN quiz_sessions : InsertLog(s)
    \/ \E s \in DOMAIN quiz_sessions : UpdateQuizSessionCompleted(s)
    \/ ResetSessions
    \/ LoadUserSessions
    \/ \E s \in DOMAIN quiz_sessions : LoadQuizSessionAsync(s)

SpecCache == InitCache /\ [][NextCache]_vars

----------------------------------------------------------------------------
(* The end of the engine on one long log: first answers worth 4 points     *)
(* given in 3 seconds, then answers worth 10 points given in 3.5 seconds,  *)
(* then slow wrong ones, all on the question without words.  The loop is   *)
(* not run row by row: probe holds how many rows of each kind there are    *)
(* and the accumulators are those the loop leaves on such a log.           *)

\* The first kind is correct within tmin = 8 s and within 3 s at 4 points;
\* the second is correct within tmin = 20 s and within 0.3 of its expected
\* 20 s; no row is within 2 s.  Eight rows of the first kind fill a window;
\* no row of 3 s has 6 points; the batch count multiplies the rows of 10
\* points of a window by its rows of 3 s.
SqlLongAcc(p) ==
    [SqlAcc0 EXCEPT !.v_total = p.total,
                    !.c_fast_correct = p.highPoint + p.ratioLow,
                    !.c_highpoint_ultrafast = p.highPoint,
                    !.c_time_ratio_low = p.ratioLow,
                    !.flag_window_fast3 = p.highPoint >= Fast3DenseMin,
                    !.flag_window_highvalue_fast =
                        \E i \in 0..Min(p.highPoint, window_size) :
                            \E j \in 0..Min(p.ratioLow, window_size - i) : i * j >= HighValueDenseMin]

TsLongAcc(p) ==
    [TsAcc0 EXCEPT !.countFastCorrect = p.highPoint + p.ratioLow,
                   !.countHighPointUltraFast = p.highPoint,
                   !.countTimeRatioLow = p.ratioLow]

TsLongFlags(p) == [fast3 |-> p.highPoint >= Fast3DenseMin, highValue |-> FALSE]

InitLong ==
    /\ profile = "long"
    /\ quiz_sessions = [s \in {1} |-> SessionRow("active", StoredQuestions)]
    /\ quiz_question_logs = <<>>
    /\ sessions = quiz_sessions
    /\ inlineRun = <<>>
    /\ batchRun = <<>>
    /\ recompute = Idle
    /\ call = NoCall
    /\ \E highPoint \in 0..MaxTierLen : \E ratioLow \in 0..Min(MaxRatioRows, MaxTierLen - highPoint) :
          probe = [total |-> MaxTierLen, highPoint |-> highPoint, ratioLow |-> ratioLow]

\* updateQuizSession(sessionId, {status: 'completed'}) on the long log
UpdateLongSessionCompleted(s) ==
    /\ CompletionOutcomes(s, TsAfterScan(<<>>, Max(1, probe.total), TsLongAcc(probe), TsLongFlags(probe)))
    /\ UNCHANGED <<profile, quiz_question_logs, batchRun, recompute, call, probe>>

\* compute_suspicion_for_session(p_session_id) on the long log
ComputeSuspicionForLongSession(s) ==
    /\ quiz_sessions[s].status = "completed"
    /\ SqlApply(s, SqlAfterLoop(<<>>, SqlLongAcc(probe)))
    /\ UNCHANGED <<profile, quiz_question_logs, sessions, inlineRun, recompute, call, probe>>

NextLong ==
    \/ \E s \in DOMAIN quiz_sessions : UpdateLongSessionCompleted(s)
    \/ \E s \in DOMAIN quiz_sessions : ComputeSuspicionForLongSession(s)

SpecLong == InitLong /\ [][NextLong]_vars

----------------------------------------------------------------------------
(* Properties.  A run is the latest computation of a path on the session's *)
(* log; every computation is the latest one in the state that follows it.  *)

InlineRan == inlineRun # <<>>
BatchRan == batchRun # <<>> /\ ~batchRun[1].raised

\* The three values a computation writes to the session row.
Written(r) ==
    [status |-> r.suspicion_status, score |-> r.suspicion_score, summary |-> r.suspicious_summary]

\* The records in processing order, with the defaulted time (tenths) and points.
BatchRecords(r) ==
    [i \in DOMAIN r.cursor |->
        [time |-> Coalesce(r.cursor[i].time_spent, 0),
         pts |-> Coalesce(r.cursor[i].total_points_possible, 1)]]

InlineRecords(r) == r.acc.perLog

\* Some window of at most 10 consecutive records holds at least `need`
\* records satisfying P.
HasDenseWindow(recs, P(_), need) ==
    \E i \in DOMAIN recs : \E j \in i..Min(Len(recs), i + 9) :
        Cardinality({k \in i..j : P(recs[k])}) >= need

\* The longest run of consecutive records satisfying P.
LongestRun(recs, P(_)) ==
    LET runs == {len \in 0..Len(recs) :
                    \E i \in 1..(Len(recs) - len + 1) : \A k \in i..(i + len - 1) : P(recs[k])}
    IN  CHOOSE m \in runs : \A x \in runs : x <= m

\* The run of records satisfying P that ends the sequence.
TrailingRun(recs, P(_)) ==
    LET runs == {len \in 0..Len(recs) : \A k \in (Len(recs) - len + 1)..Len(recs) : P(recs[k])}
    IN  CHOOSE m \in runs : \A x \in runs : x <= m

AtMost2s(rec) == rec.time <= 20
AtMost3s(rec) == rec.time <= 30
HighValueFast(rec) == rec.pts >= 6 /\ rec.time <= 30

\* C1: for one log and snapshot the batch procedure and the inline
\* computation write the same status, the same score and the same summary.
C1_BatchEqualsInline ==
    (InlineRan /\ BatchRan) => Written(inlineRun[1]) = Written(batchRun[1])

\* C2: determinism: while the log is unchanged, a repeated invocation of
\* either path produces the status, score and summary of the one before,
\* whatever order the store returned the rows in.
C2_Deterministic ==
    [][/\ (inlineRun # <<>> /\ inlineRun' # <<>> /\ quiz_question_logs' = quiz_question_logs)
          => Written(inlineRun'[1]) = Written(inlineRun[1])
       /\ (batchRun # <<>> /\ batchRun' # <<>> /\ quiz_question_logs' = quiz_question_logs)
          => Written(batchRun'[1]) = Written(batchRun[1])]_vars

\* C3: the score of either path lies between 0 and 1 (the inline path's
\* computed score and the rounded score it stores, the batch path's score).
InUnit(x) == x[2] > 0 /\ 0 <= x[1] /\ x[1] <= x[2]

C3_ScoreBounds ==
    /\ InlineRan => InUnit(inlineRun[1].score) /\ InUnit(inlineRun[1].suspicion_score)
    /\ BatchRan => InUnit(batchRun[1].suspicion_score)

\* Both paths have scored a log with a positive score.
C3_Witness ==
    /\ InlineRan /\ BatchRan
    /\ inlineRun[1].score[1] > 0
    /\ batchRun[1].suspicion_score[1] > 0

\* C4: the status is the tier of the computed score: red from 0.25 on,
\* amber from 0.15 on, green below; 0.25 itself is red and 0.15 itself amber.
TierOf(x) ==
    IF 100 * x[1] >= 25 * x[2] THEN "red"
    ELSE IF 100 * x[1] >= 15 * x[2] THEN "amber"
    ELSE "green"

C4_StatusIsTier ==
    /\ InlineRan => inlineRun[1].suspicion_status = TierOf(inlineRun[1].score)
    /\ BatchRan => batchRun[1].suspicion_status = TierOf(batchRun[1].suspicion_score)
    /\ InlineRan /\ inlineRun[1].score = <<1, 4>> => inlineRun[1].suspicion_status = "red"
    /\ InlineRan /\ inlineRun[1].score = <<3, 20>> => inlineRun[1].suspicion_status = "amber"
    /\ BatchRan /\ batchRun[1].suspicion_score = <<1, 4>> => batchRun[1].suspicion_status = "red"
    /\ BatchRan /\ batchRun[1].suspicion_score = <<3, 20>> => batchRun[1].suspicion_status = "amber"

\* Both paths have computed a score of exactly 0.25.
C4_Witness ==
    /\ InlineRan /\ BatchRan
    /\ inlineRun[1].score = <<1, 4>>
    /\ batchRun[1].suspicion_score = <<1, 4>>

\* C5: with total > 0 the score is
\*   0.30 wordy/total + 0.25 highPoint/total + 0.20 timeRatioLow/total
\*   + 0.15 speedAccuracyFlag + 0.10 streakOrBlockFlag, capped at 1,
\* over the unrounded quotients, the last flag being 1 exactly when
\* maxStreak >= 5 or one of the two window flags is set.
ClaimedScore(wordy, highPoint, ratioLow, fast2Total, fast2Correct, maxStreak, w3, wHigh, total) ==
    LET speedAccuracy == IF /\ 10 * fast2Total >= 3 * total
                            /\ fast2Total > 0
                            /\ 10 * fast2Correct >= 9 * fast2Total THEN 1 ELSE 0
        streakOrBlock == IF maxStreak >= 5 \/ w3 \/ wHigh THEN 1 ELSE 0
        n == 30 * wordy + 25 * highPoint + 20 * ratioLow
             + 15 * speedAccuracy * total + 10 * streakOrBlock * total
    IN  IF n > 100 * total THEN <<1, 1>> ELSE Rat(n, 100 * total)

C5_ScoreFormula ==
    /\ InlineRan =>
          LET r == inlineRun[1] IN
          r.score = ClaimedScore(r.acc.countWordyUltraFast, r.acc.countHighPointUltraFast,
                                 r.acc.countTimeRatioLow, r.acc.numFast2OrLess,
                                 r.acc.numFast2OrLessCorrect, r.acc.maxConsecutiveFast2OrLess,
                                 r.flags.fast3, r.flags.highValue, r.total)
    /\ BatchRan /\ batchRun[1].acc.v_total > 0 =>
          LET r == batchRun[1] IN
          r.suspicion_score = ClaimedScore(r.acc.c_wordy_ultrafast, r.acc.c_highpoint_ultrafast,
                                 r.acc.c_time_ratio_low, r.acc.c_fast2_total,
                                 r.acc.c_fast2_correct, r.acc.max_consec_fast2,
                                 r.acc.flag_window_fast3, r.acc.flag_window_highvalue_fast,
                                 r.acc.v_total)

\* Both paths have scored a log in which two rates and both flags count.
C5_Witness ==
    /\ InlineRan /\ BatchRan
    /\ inlineRun[1].acc.countHighPointUltraFast > 0
    /\ inlineRun[1].acc.countTimeRatioLow > 0
    /\ inlineRun[1].acc.maxConsecutiveFast2OrLess >= 5
    /\ batchRun[1].acc.c_highpoint_ultrafast > 0
    /\ batchRun[1].acc.max_consec_fast2 >= 5
    /\ RatGt(batchRun[1].suspicion_score, <<1, 4>>)

\* C6: windowHighValueFastDense holds exactly when some window of at most
\* 10 consecutive records has at least 3 records that each have
\* points >= 6 and time <= 3.
C6_HighValueWindow ==
    /\ InlineRan => (inlineRun[1].suspicious_summary.windowHighValueFastDense
                        <=> HasDenseWindow(InlineRecords(inlineRun[1]), HighValueFast, 3))
    /\ BatchRan => (batchRun[1].suspicious_summary.windowHighValueFastDense
                        <=> HasDenseWindow(BatchRecords(batchRun[1]), HighValueFast, 3))

\* C7: windowFast3OrLessDense holds exactly when some window of at most 10
\* consecutive records has at least 8 records with (unrounded) time <= 3.
C7_Fast3Window ==
    /\ InlineRan => (inlineRun[1].suspicious_summary.windowFast3OrLessDense
                        <=> HasDenseWindow(InlineRecords(inlineRun[1]), AtMost3s, 8))
    /\ BatchRan => (batchRun[1].suspicious_summary.windowFast3OrLessDense
                        <=> HasDenseWindow(BatchRecords(batchRun[1]), AtMost3s, 8))

\* C8: after the whole log maxConsecutiveFast2OrLess is the length of the
\* longest run of consecutive records with time <= 2, and the current streak
\* is the run that ends the log (0 after a record with time > 2).
C8_LongestStreak ==
    /\ InlineRan =>
          /\ inlineRun[1].suspicious_summary.maxConsecutiveFast2OrLess
                = LongestRun(InlineRecords(inlineRun[1]), AtMost2s)
          /\ inlineRun[1].acc.currentStreakFast2OrLess
                = TrailingRun(InlineRecords(inlineRun[1]), AtMost2s)
    /\ BatchRan =>
          /\ batchRun[1].suspicious_summary.maxConsecutiveFast2OrLess
                = LongestRun(BatchRecords(batchRun[1]), AtMost2s)
          /\ batchRun[1].acc.streak_fast2
                = TrailingRun(BatchRecords(batchRun[1]), AtMost2s)

\* Both paths have folded a log whose longest run (at least 2) was ended by a
\* slower record and is longer than the run that ends the log.
C8_Witness ==
    /\ InlineRan /\ BatchRan
    /\ inlineRun[1].acc.maxConsecutiveFast2OrLess >= 2
    /\ inlineRun[1].acc.currentStreakFast2OrLess = 1
    /\ batchRun[1].acc.max_consec_fast2 >= 2
    /\ batchRun[1].acc.streak_fast2 = 1

\* C9: for a session without answer events both paths give score 0, status
\* green, every rate 0, no streak, no window flag and totalQuestions = 0.
EmptyBaseline == [status |-> "green", score |-> <<0, 1>>, summary |-> NoSummary]

C9_EmptyLog ==
    /\ InlineRan /\ inlineRun[1].logs = <<>> =>
          /\ Written(inlineRun[1]) = EmptyBaseline
          /\ inlineRun[1].score = <<0, 1>>
    /\ BatchRan /\ batchRun[1].cursor = <<>> => Written(batchRun[1]) = EmptyBaseline

\* C10: when the computation for one completed session fails, the batch
\* driver skips that session: it ends by returning the number of completed
\* sessions it scored, and each of those holds its written result.
Scorable(s) ==
    /\ quiz_sessions[s].status = "completed"
    /\ ~SqlCompute(quiz_question_logs[s], quiz_sessions[s].questions).raised

C10_FailureSkipped ==
    recompute.pc \in {"returned", "raised"} =>
        /\ recompute.pc = "returned"
        /\ recompute.n = Cardinality({s \in DOMAIN quiz_sessions : Scorable(s)})
        /\ \A s \in DOMAIN quiz_sessions : Scorable(s) =>
              [status |-> quiz_sessions[s].suspicion_status,
               score |-> quiz_sessions[s].suspicion_score,
               summary |-> quiz_sessions[s].suspicious_summary]
              = Written(SqlCompute(quiz_question_logs[s], quiz_sessions[s].questions))

\* The three suspicion columns of a stored row.
Stored(row) ==
    [status |-> row.suspicion_status, score |-> row.suspicion_score,
     summary |-> row.suspicious_summary]

\* C11: the batch driver ends by returning; it has then invoked the engine
\* once for every completed session and for no other (n is their number and
\* each holds the engine's result), and every other row is as it was.
C11_OncePerCompleted ==
    recompute.pc \in {"returned", "raised"} =>
        /\ recompute.pc = "returned"
        /\ recompute.n = Cardinality(CompletedIds(quiz_sessions))
        /\ \A s \in CompletedIds(quiz_sessions) :
              Stored(quiz_sessions[s])
              = Written(SqlCompute(quiz_question_logs[s], quiz_sessions[s].questions))
        /\ \A s \in DOMAIN quiz_sessions \ CompletedIds(quiz_sessions) :
              quiz_sessions[s] = recompute.saved[s]

\* C12: a failure of the scoring step (the log fetch, the computation, the
\* suspicion write) leaves the session completed in the store, does not make
\* the call throw, and the call returns with the local session completed.
C12_ScoringFailureContained ==
    call.failed \in {"timeErr", "tErr", "suspErr"} =>
        /\ call.pc \in {"local", "returned"}
        /\ quiz_sessions[call.s].status = "completed"
        /\ call.pc = "returned" => sessions[call.s].status = "completed"

\* A call whose suspicion write failed has returned.
C12_Witness == call.pc = "returned" /\ call.failed = "suspErr"

\* C13: once the completion is stored, the call acknowledges it (the local
\* session becomes completed) whether or not the store ever answers the
\* requests of the scoring step.
C13_AckDoesNotWait ==
    \A s \in 1..MaxSessions :
        (call.s = s /\ call.pc \in {"fetch", "write"}) ~> (sessions[s].status = "completed")

\* C14: whatever the interleaving of batch and inline invocations on an
\* unchanged log, the stored status, score and summary of a scored session
\* are together what one single invocation writes.
SingleResults(s) ==
    {Written(SqlCompute(quiz_question_logs[s], quiz_sessions[s].questions))}
    \cup {Written(TsCompute(timeAgg, sessions[s])) : timeAgg \in FetchOrders(quiz_question_logs[s])}

EngineOn(table, s) ==
    [table EXCEPT ![s] = SqlWrite(@, SqlCompute(quiz_question_logs[s], table[s].questions))]

C15_OwnRowOnly ==
    [][\A s \in DOMAIN quiz_sessions :
        /\ (call.s = s /\ call' # call)
           => \A x \in DOMAIN quiz_sessions \ {s} :
                  quiz_sessions'[x] = quiz_sessions[x] /\ sessions'[x] = sessions[x]
        /\ (call' = call /\ ComputeSuspicionForSession(s))
           => /\ quiz_sessions' = EngineOn(quiz_sessions, s)
              /\ sessions' = sessions
              /\ \A x \in DOMAIN quiz_sessions \ {s} :
                    /\ quiz_sessions'[x] = quiz_sessions[x]
                    /\ EngineOn(quiz_sessions', x) = EngineOn(EngineOn(quiz_sessions, x), s)]_vars

\* Two sessions have been scored, one by each path, with different results.
C15_Witness ==
    /\ call.wrote /\ BatchRan
    /\ \E s \in DOMAIN quiz_sessions \ {call.s} :
          /\ Stored(quiz_sessions[s]) = Written(batchRun[1])
          /\ Stored(quiz_sessions[call.s]) = Written(call.r[1])
          /\ Stored(quiz_sessions[s]) # Stored(quiz_sessions[call.s])

\* C16: both paths process the rows in one total order: answered_at
\* ascending, rows without answered_at after all others, ties broken by
\* created_at and then by id.
ClaimedBefore(a, b) ==
    IF a.answered_at # b.answered_at
    THEN a.answered_at # Null /\ (b.answered_at = Null \/ a.answered_at < b.answered_at)
    ELSE IF a.created_at # b.created_at THEN a.created_at < b.created_at
    ELSE a.id < b.id

InClaimedOrder(rows) ==
    \A i, j \in DOMAIN rows : i < j => ClaimedBefore(rows[i], rows[j])

C16_SameTotalOrder ==
    /\ InlineRan => InClaimedOrder(inlineRun[1].logs)
    /\ BatchRan => InClaimedOrder(batchRun[1].cursor)

\* C17: the word count of a text is the number of its non-empty
\* white-space-delimited tokens; a missing, empty or white-space-only text
\* counts 0; in both helpers.
Tokens(text) ==
    IF text = NullText THEN 0
    ELSE Cardinality({i \in DOMAIN text :
                        text[i] \notin {"s", "t"} /\ (i = 1 \/ text[i - 1] \in {"s", "t"})})

C17_WordCount ==
    /\ probe.word_count # Null => probe.word_count = Tokens(probe.text)
    /\ probe.countWords # Null => probe.countWords = Tokens(probe.text)

\* C18: a log whose question ids have no entry in the snapshot is scored
\* without failure, each row with word count 0: none counts as wordy, and a
\* row counts as timeRatioLow exactly when it is correct and its time is at
\* most 0.3 of max(2, 2 * points).
Unmatched(rows, questions) ==
    \A i \in DOMAIN rows : \A k \in DOMAIN questions.elems :
        questions.elems[k].id # rows[i].question_id

\* The rows that are correct and take at most 0.3 of max(2, 2 * points);
\* points default to 1 and time to 0 (time in tenths of a second).
LowRatioAtZeroWords(rows) ==
    {i \in DOMAIN rows :
        /\ rows[i].is_correct = "true"
        /\ 10 * (IF rows[i].time_spent = Null THEN 0 ELSE rows[i].time_spent)
             <= 3 * 10 * Max(2, 2 * (IF rows[i].total_points_possible = Null
                                     THEN 1 ELSE rows[i].total_points_possible))}

C18_UnmatchedQuestion ==
    /\ (InlineRan /\ Unmatched(inlineRun[1].logs, sessions[1].questions)) =>
          /\ inlineRun[1].acc.countWordyUltraFast = 0
          /\ inlineRun[1].acc.countTimeRatioLow
                = Cardinality(LowRatioAtZeroWords(inlineRun[1].logs))
    /\ (batchRun # <<>> /\ Unmatched(batchRun[1].cursor, quiz_sessions[1].questions)) =>
          /\ ~batchRun[1].raised
          /\ batchRun[1].acc.c_wordy_ultrafast = 0
          /\ batchRun[1].acc.c_time_ratio_low
                = Cardinality(LowRatioAtZeroWords(batchRun[1].cursor))

\* C19: a missing field of a row is replaced by its default (points 1,
\* time 0, correct false, show-answer false) without an error, and a
\* present field is used as it is, in both paths.  The inline path's
\* per-row records show points, time and correct; the batch path's window
\* shows the points; the counters over time <= 2 show the rest.
Default(x, d) == IF x = Null THEN d ELSE x

FeatureRecords(rows) ==
    [i \in DOMAIN rows |->
        [pts |-> Default(rows[i].total_points_possible, 1),
         time |-> Default(rows[i].time_spent, 0),
         correct |-> rows[i].is_correct = "true",
         show |-> rows[i].show_answer_used = "true"]]

Fast2(recs) == {i \in DOMAIN recs : recs[i].time <= 20}
Fast2Correct(recs) == {i \in DOMAIN recs : recs[i].time <= 20 /\ recs[i].correct}
ShowAnswerFast(recs) == {i \in DOMAIN recs : recs[i].show /\ recs[i].correct /\ recs[i].time <= 20}
LastPoints(recs) ==
    [i \in 1..Min(Len(recs), 10) |-> recs[Len(recs) - Min(Len(recs), 10) + i].pts]

DefaultsInline(r, recs) ==
    /\ r.acc.perLog = [i \in DOMAIN recs |->
            [time |-> recs[i].time, correct |-> recs[i].correct, pts |-> recs[i].pts]]
    /\ r.acc.countShowAnswerFast = Cardinality(ShowAnswerFast(recs))

DefaultsBatch(r, recs) ==
    /\ r.acc.arr_points = LastPoints(recs)
    /\ r.acc.c_fast2_total = Cardinality(Fast2(recs))
    /\ r.acc.c_fast2_correct = Cardinality(Fast2Correct(recs))
    /\ r.acc.c_show_answer_fast = Cardinality(ShowAnswerFast(recs))

C19_Defaults ==
    /\ InlineRan => DefaultsInline(inlineRun[1], FeatureRecords(inlineRun[1].logs))
    /\ batchRun # <<>> =>
          /\ ~batchRun[1].raised
          /\ DefaultsBatch(batchRun[1], FeatureRecords(batchRun[1].cursor))

\* Both paths have scored a log with a row that lacks its points and a row
\* that lacks its time, its correctness and its show-answer flag.
C19_Witness ==
    /\ InlineRan /\ BatchRan
    /\ \E i, j \in DOMAIN batchRun[1].cursor :
          /\ batchRun[1].cursor[i].total_points_possible = Null
          /\ batchRun[1].cursor[j].time_spent = Null
          /\ batchRun[1].cursor[j].is_correct = "null"
          /\ batchRun[1].cursor[j].show_answer_used = "null"
    /\ Range(inlineRun[1].logs) = Range(batchRun[1].cursor)

\* C20: after the log is folded, total is the number of rows and every
\* counter is the number of records that satisfy its predicate; a record's
\* word count is the number of tokens of the question and answer texts of
\* its snapshot entry, 0 without one.  Times are in tenths of a second.
SnapshotWords(questions, question_id) ==
    LET hits == {k \in DOMAIN questions.elems : questions.elems[k].id = question_id}
    IN  IF hits = {} THEN 0
        ELSE LET q == questions.elems[CHOOSE k \in hits : \A j \in hits : k <= j]
             IN  Tokens(q.question) + Tokens(q.answer)

Holds(recs, rows, questions, name) ==
    {i \in DOMAIN recs :
        CASE name = "fastCorrect" ->
               recs[i].correct /\ 0 < recs[i].time /\ recs[i].time < 10 * Max(2, 2 * recs[i].pts)
          [] name = "ultraFast" -> recs[i].correct /\ recs[i].time <= 20
          [] name = "zeroOne" -> recs[i].correct /\ recs[i].time <= 10
          [] name = "showAnswerFast" -> recs[i].show /\ recs[i].correct /\ recs[i].time <= 20
          [] name = "highPointUltraFast" ->
               recs[i].correct /\ recs[i].pts >= 4 /\ recs[i].time <= 30
          [] name = "wordyUltraFast" ->
               /\ recs[i].correct /\ recs[i].time <= 20
               /\ SnapshotWords(questions, rows[i].question_id) >= 14
          [] name = "fast2Total" -> recs[i].time <= 20
          [] name = "fast2Correct" -> recs[i].time <= 20 /\ recs[i].correct}

Counted(recs, rows, questions, name) == Cardinality(Holds(recs, rows, questions, name))

CountersInline(r, recs, questions) ==
    /\ r.total = Len(r.logs)
    /\ r.acc.countFastCorrect = Counted(recs, r.logs, questions, "fastCorrect")
    /\ r.acc.countUltraFast = Counted(recs, r.logs, questions, "ultraFast")
    /\ r.acc.countZeroOne = Counted(recs, r.logs, questions, "zeroOne")
    /\ r.acc.countShowAnswerFast = Counted(recs, r.logs, questions, "showAnswerFast")
    /\ r.acc.countHighPointUltraFast = Counted(recs, r.logs, questions, "highPointUltraFast")
    /\ r.acc.countWordyUltraFast = Counted(recs, r.logs, questions, "wordyUltraFast")
    /\ r.acc.numFast2OrLess = Counted(recs, r.logs, questions, "fast2Total")
    /\ r.acc.numFast2OrLessCorrect = Counted(recs, r.logs, questions, "fast2Correct")

CountersBatch(r, recs, questions) ==
    /\ r.acc.v_total = Len(r.cursor)
    /\ r.acc.c_fast_correct = Counted(recs, r.cursor, questions, "fastCorrect")
    /\ r.acc.c_ultra_fast = Counted(recs, r.cursor, questions, "ultraFast")
    /\ r.acc.c_zero_one = Counted(recs, r.cursor, questions, "zeroOne")
    /\ r.acc.c_show_answer_fast = Counted(recs, r.cursor, questions, "showAnswerFast")
    /\ r.acc.c_highpoint_ultrafast = Counted(recs, r.cursor, questions, "highPointUltraFast")
    /\ r.acc.c_wordy_ultrafast = Counted(recs, r.cursor, questions, "wordyUltraFast")
    /\ r.acc.c_fast2_total = Counted(recs, r.cursor, questions, "fast2Total")
    /\ r.acc.c_fast2_correct = Counted(recs, r.cursor, questions, "fast2Correct")

C20_CountersMatchPredicates ==
    /\ (InlineRan /\ sessions[1].questions.kind = "array") =>
          CountersInline(inlineRun[1], FeatureRecords(inlineRun[1].logs), sessions[1].questions)
    /\ (BatchRan /\ quiz_sessions[1].questions.kind = "array") =>
          CountersBatch(batchRun[1], FeatureRecords(batchRun[1].cursor), quiz_sessions[1].questions)

\* C21: the minimum expected time of a record is max(2, 2 * points), its
\* expected time is that plus 0.2 per word of its question and answer, and
\* timeRatioLow counts exactly the correct records with expected time > 0
\* and time / expected time <= 0.3, the boundary included; fastCorrect
\* shows the minimum expected time.  Stated for logs whose rows all have
\* their question in the snapshot.  Times are in tenths of a second.
Matched(rows, questions) ==
    \A i \in DOMAIN rows : \E k \in DOMAIN questions.elems :
        questions.elems[k].id = rows[i].question_id

MinExpected(rec) == 10 * Max(2, 2 * rec.pts)

Expected(rec, words) == MinExpected(rec) + 2 * words

TimeRatioLow(recs, rows, questions) ==
    {i \in DOMAIN recs :
        /\ recs[i].correct
        /\ Expected(recs[i], SnapshotWords(questions, rows[i].question_id)) > 0
        /\ 10 * recs[i].time
              <= 3 * Expected(recs[i], SnapshotWords(questions, rows[i].question_id))}

FastCorrect(recs) ==
    {i \in DOMAIN recs : recs[i].correct /\ 0 < recs[i].time /\ recs[i].time < MinExpected(recs[i])}

C21_TimeRatioLow ==
    /\ (InlineRan /\ sessions[1].questions.kind = "array"
          /\ Matched(inlineRun[1].logs, sessions[1].questions)) =>
          /\ inlineRun[1].acc.countTimeRatioLow
                = Cardinality(TimeRatioLow(FeatureRecords(inlineRun[1].logs),
                                           inlineRun[1].logs, sessions[1].questions))
          /\ inlineRun[1].acc.countFastCorrect
                = Cardinality(FastCorrect(FeatureRecords(inlineRun[1].logs)))
    /\ (BatchRan /\ quiz_sessions[1].questions.kind = "array"
          /\ Matched(batchRun[1].cursor, quiz_sessions[1].questions)) =>
          /\ batchRun[1].acc.c_time_ratio_low
                = Cardinality(TimeRatioLow(FeatureRecords(batchRun[1].cursor),
                                           batchRun[1].cursor, quiz_sessions[1].questions))
          /\ batchRun[1].acc.c_fast_correct
                = Cardinality(FastCorrect(FeatureRecords(batchRun[1].cursor)))

\* C22: processing the same rows in another order changes neither total,
\* nor a counter, nor a rate, nor fast2Share, fast2Accuracy or the
\* speed-accuracy flag; the longest streak and the two window flags are
\* all that the order can change.  The orders tried are all orders of a
\* short log, and the reverse and the rotation by half the length of a
\* longer one.
Rotate(s, k) == [i \in 1..Len(s) |-> s[((i + k - 1) % Len(s)) + 1]]

Shuffles(rows) ==
    IF Len(rows) <= MaxShuffle THEN Perms(rows)
    ELSE {Reverse(rows), Rotate(rows, Len(rows) \div 2)}

OrderFreeSummary(summary) ==
    [k \in DOMAIN summary \ {"maxConsecutiveFast2OrLess", "windowFast3OrLessDense",
                              "windowHighValueFastDense"} |-> summary[k]]

OrderFreeBatch(r) ==
    <<[k \in DOMAIN r.acc \ {"streak_fast2", "max_consec_fast2", "flag_window_fast3",
                              "flag_window_highvalue_fast", "arr_times", "arr_points"}
          |-> r.acc[k]],
      OrderFreeSummary(r.suspicious_summary),
      SqlSpeedAccuracyFlag(r.acc)>>

OrderFreeInline(r) ==
    <<r.total,
      [k \in DOMAIN r.acc \ {"currentStreakFast2OrLess", "maxConsecutiveFast2OrLess", "perLog"}
          |-> r.acc[k]],
      OrderFreeSummary(r.suspicious_summary),
      TsSpeedAccuracyFlag(r.acc, r.total)>>

OrderSensitive(r) ==
    <<r.suspicious_summary.maxConsecutiveFast2OrLess,
      r.suspicious_summary.windowFast3OrLessDense,
      r.suspicious_summary.windowHighValueFastDense>>

BatchOrderFree(r, v_questions) ==
    \A p \in Shuffles(r.cursor) : OrderFreeBatch(SqlOnCursor(p, v_questions)) = OrderFreeBatch(r)

InlineOrderFree(r, questionsArray) ==
    \A p \in Shuffles(r.logs) : OrderFreeInline(TsOnLogs(p, questionsArray)) = OrderFreeInline(r)

C22_OrderFreeCounters ==
    /\ BatchRan => BatchOrderFree(batchRun[1], quiz_sessions[1].questions)
    /\ InlineRan => InlineOrderFree(inlineRun[1], TsQuestionsArray(sessions[1]))

\* Both paths have scored a log longer than the window that raises the
\* fast-answer window flag, and another order of it does not.
C22_Witness ==
    /\ BatchRan /\ InlineRan
    /\ Len(batchRun[1].cursor) > window_size
    /\ batchRun[1].acc.flag_window_fast3 /\ inlineRun[1].flags.fast3
    /\ \E p \in Shuffles(batchRun[1].cursor) :
          ~OrderSensitive(SqlOnCursor(p, quiz_sessions[1].questions))[2]
    /\ \E p \in Shuffles(inlineRun[1].logs) :
          ~OrderSensitive(TsOnLogs(p, TsQuestionsArray(sessions[1])))[2]

\* C23: a window flag that is true after a prefix of the log is true after
\* every longer prefix, and the flag reported is the one after the last
\* row.  The batch flags after a prefix are those of the loop after that
\* many rows; the inline flags after a prefix are those of the window scan
\* over that many records.
FlagsLeq(f, g) == (f[1] => g[1]) /\ (f[2] => g[2])

BatchFlags(acc) == <<acc.flag_window_fast3, acc.flag_window_highvalue_fast>>

RECURSIVE BatchSticky(_, _, _, _, _)
BatchSticky(rows, k, acc, v_questions, reported) ==
    IF k > Len(rows) THEN BatchFlags(acc) = reported
    ELSE /\ FlagsLeq(BatchFlags(acc), reported)
         /\ BatchSticky(rows, k + 1, SqlLoopBody(acc, rows[k], v_questions), v_questions, reported)

InlineFlags(perLog, k) ==
    LET f == TsWindowScan(SubSeq(perLog, 1, k), 1, [fast3 |-> FALSE, highValue |-> FALSE])
    IN  <<f.fast3, f.highValue>>

InlineSticky(perLog, reported) ==
    /\ \A k \in 0..Len(perLog) : FlagsLeq(InlineFlags(perLog, k), reported)
    /\ InlineFlags(perLog, Len(perLog)) = reported

C23_StickyFlags ==
    /\ BatchRan =>
          BatchSticky(batchRun[1].cursor, 1, SqlAcc0, quiz_sessions[1].questions,
                      <<batchRun[1].suspicious_summary.windowFast3OrLessDense,
                        batchRun[1].suspicious_summary.windowHighValueFastDense>>)
    /\ InlineRan =>
          InlineSticky(inlineRun[1].acc.perLog,
                       <<inlineRun[1].suspicious_summary.windowFast3OrLessDense,
                         inlineRun[1].suspicious_summary.windowHighValueFastDense>>)

\* Both paths have scored a log in which the fast-answer window flag is
\* raised before the last row and the windows that follow are not dense:
\* the last three rows are slower than 3 seconds.
C23_Witness ==
    /\ BatchRan /\ InlineRan
    /\ Len(batchRun[1].cursor) > window_size
    /\ \A i \in (Len(batchRun[1].cursor) - 2)..Len(batchRun[1].cursor) :
          batchRun[1].cursor[i].time_spent > 30
    /\ batchRun[1].suspicious_summary.windowFast3OrLessDense
    /\ inlineRun[1].suspicious_summary.windowFast3OrLessDense
    /\ SqlFast3Count(batchRun[1].acc.arr_times) < Fast3DenseMin

\* C24: a session of 10 answers, all correct, each in 1 second, for 1 point,
\* on a question and answer without words, has ultraFastRate, zeroOneRate,
\* fast2Share and fast2Accuracy 1.0, longest streak 10, score 0.25 and
\* status red, in both paths.
AllRows(rows, n, pts, time) ==
    /\ Len(rows) = n
    /\ \A i \in DOMAIN rows :
          /\ rows[i].total_points_possible = pts
          /\ rows[i].time_spent = time
          /\ rows[i].is_correct = "true"
          /\ rows[i].show_answer_used = "false"
          /\ SnapshotWords(StoredQuestions, rows[i].question_id) = 0

ScenarioA(rows) == AllRows(rows, 10, 1, 10)

ScenarioAResult(r) ==
    /\ r.suspicious_summary.ultraFastRate = 1000
    /\ r.suspicious_summary.zeroOneRate = 1000
    /\ r.suspicious_summary.fast2Share = 1000
    /\ r.suspicious_summary.fast2Accuracy = 1000
    /\ r.suspicious_summary.maxConsecutiveFast2OrLess = 10
    /\ r.suspicion_score = <<1, 4>>
    /\ r.suspicion_status = "red"

C24_ScenarioA ==
    /\ (BatchRan /\ ScenarioA(batchRun[1].cursor)) => ScenarioAResult(batchRun[1])
    /\ (InlineRan /\ ScenarioA(inlineRun[1].logs)) =>
          ScenarioAResult(inlineRun[1]) /\ inlineRun[1].score = <<1, 4>>

C24_Witness ==
    /\ BatchRan /\ ScenarioA(batchRun[1].cursor)
    /\ InlineRan /\ ScenarioA(inlineRun[1].logs)
    /\ quiz_sessions[1].suspicion_status = "red"

\* C25: a session of 10 answers, all correct, each in 30 seconds, for 1
\* point, on a question and answer without words, triggers no fast,
\* ultra-fast, ratio, streak or window signal and has score 0 and status
\* green, in both paths.
ScenarioB(rows) == AllRows(rows, 10, 1, 300)

NoSignal(summary) ==
    /\ summary.fastCorrectRate = 0
    /\ summary.ultraFastRate = 0
    /\ summary.zeroOneRate = 0
    /\ summary.showAnswerFastRate = 0
    /\ summary.highPointUltraFastRate = 0
    /\ summary.wordyUltraFastRate = 0
    /\ summary.timeRatioLowRate = 0
    /\ summary.fast2Share = 0
    /\ summary.fast2Accuracy = 0
    /\ summary.maxConsecutiveFast2OrLess = 0
    /\ ~summary.windowFast3OrLessDense
    /\ ~summary.windowHighValueFastDense
    /\ summary.totalQuestions = 10

ScenarioBResult(r) ==
    /\ NoSignal(r.suspicious_summary)
    /\ r.suspicion_score = <<0, 1>>
    /\ r.suspicion_status = "green"

C25_ScenarioB ==
    /\ (BatchRan /\ ScenarioB(batchRun[1].cursor)) => ScenarioBResult(batchRun[1])
    /\ (InlineRan /\ ScenarioB(inlineRun[1].logs)) =>
          ScenarioBResult(inlineRun[1]) /\ inlineRun[1].score = <<0, 1>>

C25_Witness ==
    /\ BatchRan /\ ScenarioB(batchRun[1].cursor)
    /\ InlineRan /\ ScenarioB(inlineRun[1].logs)
    /\ quiz_sessions[1].suspicion_status = "green"

\* C26, as stated: a session of one answer, correct, in 2 seconds, for 5
\* points, on a question and answer without words, show-answer not used, has
\* highPointUltraFastRate 1.0 as its only contribution to the score, so the
\* score is 0.25 and the status red.
ScenarioC(rows) == AllRows(rows, 1, 5, 20)

ScenarioCStated(r) ==
    /\ r.suspicious_summary.highPointUltraFastRate = 1000
    /\ r.suspicious_summary.wordyUltraFastRate = 0
    /\ r.suspicious_summary.timeRatioLowRate = 0
    /\ r.suspicion_score = <<1, 4>>
    /\ r.suspicion_status = "red"

C26_ScenarioC ==
    /\ (BatchRan /\ ScenarioC(batchRun[1].cursor)) => ScenarioCStated(batchRun[1])
    /\ (InlineRan /\ ScenarioC(inlineRun[1].logs)) => ScenarioCStated(inlineRun[1])

\* C26, amended: in that session the record also has time / expected time
\* = 2 / 10 <= 0.3 and the speed-accuracy flag is set (fast2Share and
\* fast2Accuracy are 1.0), so the score is 0.25 + 0.20 + 0.15 = 0.60; the
\* streak-or-block flag is not set; the status is red.
ScenarioCResult(r) ==
    /\ r.suspicious_summary.highPointUltraFastRate = 1000
    /\ r.suspicious_summary.wordyUltraFastRate = 0
    /\ r.suspicious_summary.timeRatioLowRate = 1000
    /\ r.suspicious_summary.fast2Share = 1000
    /\ r.suspicious_summary.fast2Accuracy = 1000
    /\ r.suspicious_summary.maxConsecutiveFast2OrLess = 1
    /\ ~r.suspicious_summary.windowFast3OrLessDense
    /\ ~r.suspicious_summary.windowHighValueFastDense
    /\ r.suspicion_score = <<3, 5>>
    /\ r.suspicion_status = "red"

C26_ScenarioCAmended ==
    /\ (BatchRan /\ ScenarioC(batchRun[1].cursor)) => ScenarioCResult(batchRun[1])
    /\ (InlineRan /\ ScenarioC(inlineRun[1].logs)) =>
          ScenarioCResult(inlineRun[1]) /\ inlineRun[1].score = <<3, 5>>

C26_Witness ==
    /\ BatchRan /\ ScenarioC(batchRun[1].cursor)
    /\ InlineRan /\ ScenarioC(inlineRun[1].logs)
    /\ quiz_sessions[1].suspicion_score = <<3, 5>>

\* C27: a rate of the summary is the exact quotient of its counter and the
\* total rounded to 3 decimals (a half thousandth upwards), in both paths.
C27_RatesRounded ==
    /\ probe.round # Null => probe.round = Round3(probe.count, probe.total)
    /\ probe.toFixed # Null => probe.toFixed = Round3(probe.count, probe.total)

\* C28: fast2Share is fast2Total / total and fast2Accuracy is fast2Correct /
\* fast2Total, 0 when fast2Total is 0 (each reported within half a
\* thousandth), and the speed-accuracy flag is 1 exactly when fast2Share >=
\* 0.3 and fast2Accuracy >= 0.9, both boundaries included.
Within(rate, n, d) == 2 * (IF 1000 * n >= rate * d THEN 1000 * n - rate * d
                           ELSE rate * d - 1000 * n) <= d

SpeedAsClaimed(p, s) ==
    /\ Within(s.fast2Share, p.fast2, p.total)
    /\ IF p.fast2 = 0 THEN s.fast2Accuracy = 0 ELSE Within(s.fast2Accuracy, p.correct, p.fast2)
    /\ s.flag = B2N(/\ 10 * p.fast2 >= 3 * p.total
                    /\ p.fast2 > 0
                    /\ 10 * p.correct >= 9 * p.fast2)

C28_SpeedAccuracy ==
    /\ probe.batch # <<>> => SpeedAsClaimed(probe, probe.batch[1])
    /\ probe.inline # <<>> => SpeedAsClaimed(probe, probe.inline[1])

\* Exactly 30% of 100 answers took at most 2 seconds, exactly 90% of these
\* are correct, and both paths set the flag.
C28_Witness ==
    /\ probe.total = 100 /\ probe.fast2 = 30 /\ probe.correct = 27
    /\ probe.batch # <<>> /\ probe.batch[1].flag = 1
    /\ probe.inline # <<>> /\ probe.inline[1].flag = 1

\* C29: a completed session that the engine can score is recomputed by the
\* batch path, whatever became of its inline scoring: with the driver run
\* again and again, the session comes to hold the engine's result on its
\* log and snapshot.
C29_RecomputedLater ==
    \A s \in 1..MaxSessions :
        (quiz_sessions[s].status = "completed" /\ Scorable(s))
            ~> (recompute.pc = "returned"
                /\ Stored(quiz_sessions[s])
                     = Written(SqlCompute(quiz_question_logs[s], quiz_sessions[s].questions)))

\* C30: the scan of trailing windows (after each record, the window of the
\* last at most window_size records, as the batch loop keeps it) and the scan
\* of forward windows (from each record, the at most window_size records that
\* start there, as the inline scan slices them) raise the same two window
\* flags on every log when both count records by the same predicate.  This
\* is stated twice: for the records of the inline run, with the inline
\* counts applied to the windows of either scan; and for the two engines as
\* they are, on the fast-answer flag, for logs on whose every record the
\* batch predicate (time as int <= 3) and the inline one (time <= 3) agree.
NoFlags == [fast3 |-> FALSE, highValue |-> FALSE]

RECURSIVE TrailingScan(_, _, _, _)
TrailingStep(perLog, k, window, flags) ==
    TrailingScan(perLog, k + 1, window, TsWindowFlags(flags, window))

TrailingScan(perLog, k, window, flags) ==
    IF k > Len(perLog) THEN flags
    ELSE TrailingStep(perLog, k, SqlPush(window, perLog[k]), flags)

ForwardScan(perLog) == TsWindowScan(perLog, 1, NoFlags)

SameFast3Predicate(rows) ==
    \A i \in DOMAIN rows :
        (NumericToInt(Coalesce(rows[i].time_spent, 0)) <= 3)
            = (Coalesce(rows[i].time_spent, 0) <= 30)

C30_SameWindowFlags ==
    /\ InlineRan =>
          TrailingScan(inlineRun[1].acc.perLog, 1, <<>>, NoFlags)
              = ForwardScan(inlineRun[1].acc.perLog)
    /\ (BatchRan /\ InlineRan /\ SameFast3Predicate(batchRun[1].cursor)) =>
          batchRun[1].acc.flag_window_fast3 = ForwardScan(inlineRun[1].acc.perLog).fast3

\* Both paths have scored a log shorter than a window, so that every window
\* of either scan is a truncated one, and both have raised the fast-answer
\* flag on it.
C30_Witness ==
    /\ BatchRan /\ InlineRan
    /\ Len(inlineRun[1].acc.perLog) < window_size
    /\ Len(batchRun[1].cursor) = Len(inlineRun[1].acc.perLog)
    /\ SameFast3Predicate(batchRun[1].cursor)
    /\ batchRun[1].acc.flag_window_fast3
    /\ ForwardScan(inlineRun[1].acc.perLog).fast3
    /\ TrailingScan(inlineRun[1].acc.perLog, 1, <<>>, NoFlags).fast3

\* C31: whenever the scoring block of updateQuizSession runs, the questions
\* array it reads from the cached session is the one stored on the session
\* row, whatever the cache holds, a summary without questions included.
C31_SnapshotIsStored ==
    [][\A s \in DOMAIN quiz_sessions :
          (s \in DOMAIN sessions /\ inlineRun' # inlineRun)
              => TsQuestionsArray(sessions[s]) = TsQuestionsArray(quiz_sessions[s])]_vars

\* C32: the weighted sum of either path, before the cap, is at least 0 and
\* at most 1 on every log, so the cap leaves it as it is: the score is the
\* sum itself.
C32_CapNeverTaken ==
    /\ BatchRan =>
          /\ 0 <= SqlWeightedSum(batchRun[1].acc)
          /\ SqlWeightedSum(batchRun[1].acc) <= 100 * batchRun[1].acc.v_total
          /\ batchRun[1].acc.v_total > 0 =>
                batchRun[1].suspicion_score
                    = Rat(SqlWeightedSum(batchRun[1].acc), 100 * batchRun[1].acc.v_total)
    /\ InlineRan =>
          /\ 0 <= TsWeightedSum(inlineRun[1].acc, inlineRun[1].flags, inlineRun[1].total)
          /\ TsWeightedSum(inlineRun[1].acc, inlineRun[1].flags, inlineRun[1].total)
                <= 100 * inlineRun[1].total
          /\ inlineRun[1].score
                = Rat(TsWeightedSum(inlineRun[1].acc, inlineRun[1].flags, inlineRun[1].total),
                      100 * inlineRun[1].total)

\* The batch path has scored a log on which every term of the sum is at its
\* largest, so that the sum is exactly 1, and the inline path has scored it
\* with a positive sum.
C32_Witness ==
    /\ BatchRan /\ InlineRan
    /\ batchRun[1].acc.v_total > 0
    /\ SqlWeightedSum(batchRun[1].acc) = 100 * batchRun[1].acc.v_total
    /\ TsWeightedSum(inlineRun[1].acc, inlineRun[1].flags, inlineRun[1].total) > 0

\* C33: after every step of either fold, zeroOne <= ultraFast = fast2Correct
\* <= fast2Total <= rows met so far, showAnswerFast <= ultraFast,
\* wordyUltraFast <= ultraFast, timeRatioLow and highPointUltraFast <= rows
\* met so far, and current streak <= longest streak <= fast2Total.  Each
\* fold is replayed row by row on the log it has scored.
SqlCountersOrdered(acc) ==
    /\ 0 <= acc.c_zero_one /\ acc.c_zero_one <= acc.c_ultra_fast
    /\ acc.c_ultra_fast = acc.c_fast2_correct
    /\ acc.c_fast2_correct <= acc.c_fast2_total
    /\ acc.c_fast2_total <= acc.v_total
    /\ acc.c_show_answer_fast <= acc.c_ultra_fast
    /\ acc.c_wordy_ultrafast <= acc.c_ultra_fast
    /\ acc.c_time_ratio_low <= acc.v_total
    /\ acc.c_highpoint_ultrafast <= acc.v_total
    /\ acc.streak_fast2 <= acc.max_consec_fast2
    /\ acc.max_consec_fast2 <= acc.c_fast2_total

TsCountersOrdered(acc, met) ==
    /\ 0 <= acc.countZeroOne /\ acc.countZeroOne <= acc.countUltraFast
    /\ acc.countUltraFast = acc.numFast2OrLessCorrect
    /\ acc.numFast2OrLessCorrect <= acc.numFast2OrLess
    /\ acc.numFast2OrLess <= met
    /\ acc.countShowAnswerFast <= acc.countUltraFast
    /\ acc.countWordyUltraFast <= acc.countUltraFast
    /\ acc.countTimeRatioLow <= met
    /\ acc.countHighPointUltraFast <= met
    /\ acc.currentStreakFast2OrLess <= acc.maxConsecutiveFast2OrLess
    /\ acc.maxConsecutiveFast2OrLess <= acc.numFast2OrLess

RECURSIVE SqlFoldOrdered(_, _, _, _)
SqlFoldOrdered(rows, k, acc, v_questions) ==
    /\ SqlCountersOrdered(acc)
    /\ k <= Len(rows) =>
          SqlFoldOrdered(rows, k + 1, SqlLoopBody(acc, rows[k], v_questions), v_questions)

RECURSIVE TsFoldOrdered(_, _, _, _)
TsFoldOrdered(logs, k, acc, questionsArray) ==
    /\ TsCountersOrdered(acc, k - 1)
    /\ k <= Len(logs) =>
          TsFoldOrdered(logs, k + 1, TsLoopBody(acc, logs[k], questionsArray), questionsArray)

C33_CountersOrdered ==
    /\ BatchRan =>
          /\ SqlFoldOrdered(batchRun[1].cursor, 1, SqlAcc0, quiz_sessions[1].questions)
          /\ SqlCountersOrdered(batchRun[1].acc)
    /\ InlineRan =>
          /\ TsFoldOrdered(inlineRun[1].logs, 1, TsAcc0, TsQuestionsArray(sessions[1]))
          /\ TsCountersOrdered(inlineRun[1].acc, Len(inlineRun[1].logs))
          /\ Len(inlineRun[1].logs) <= inlineRun[1].total

\* Both paths have scored a log on which parts of the chain are strict:
\* fewer correct answers within 1 second than within 2 seconds, fewer
\* answers within 2 seconds than rows, and a streak that has ended, below
\* the longest one.
C33_Witness ==
    /\ BatchRan /\ InlineRan
    /\ batchRun[1].acc.c_zero_one < batchRun[1].acc.c_ultra_fast
    /\ batchRun[1].acc.c_fast2_total < batchRun[1].acc.v_total
    /\ batchRun[1].acc.streak_fast2 < batchRun[1].acc.max_consec_fast2
    /\ inlineRun[1].acc.countZeroOne < inlineRun[1].acc.countUltraFast
    /\ inlineRun[1].acc.numFast2OrLess < Len(inlineRun[1].logs)
    /\ inlineRun[1].acc.currentStreakFast2OrLess < inlineRun[1].acc.maxConsecutiveFast2OrLess

\* C34: a result whose longest streak of answers within 2 seconds is 8 or
\* more has windowFast3OrLessDense set, in either path.
StreakFillsWindow(summary) ==
    summary.maxConsecutiveFast2OrLess >= Fast3DenseMin => summary.windowFast3OrLessDense

C34_LongStreakIsDense ==
    /\ BatchRan => StreakFillsWindow(batchRun[1].suspicious_summary)
    /\ InlineRan => StreakFillsWindow(inlineRun[1].suspicious_summary)

\* Both paths have scored a log whose longest streak is exactly 8, and both
\* report the window flag.
C34_Witness ==
    /\ BatchRan /\ InlineRan
    /\ batchRun[1].suspicious_summary.maxConsecutiveFast2OrLess = Fast3DenseMin
    /\ inlineRun[1].suspicious_summary.maxConsecutiveFast2OrLess = Fast3DenseMin
    /\ batchRun[1].suspicious_summary.windowFast3OrLessDense
    /\ inlineRun[1].suspicious_summary.windowFast3OrLessDense

\* C35: the status a session row holds is the tier of the score it holds:
\* red from 0.25 on, amber from 0.15 on, green below.
C35_StoredStatusIsTier ==
    \A s \in DOMAIN quiz_sessions :
        quiz_sessions[s].suspicion_status # "null"
            => quiz_sessions[s].suspicion_status = TierOf(quiz_sessions[s].suspicion_score)

\* C36: every step that changes the status, score or summary a session row
\* holds is the one update of one invocation, and leaves the row with all
\* three values of that invocation's result: the inline call's suspicion
\* write, or the batch procedure's update statement.
C36_OneUpdatePerInvocation ==
    [][\A s \in DOMAIN quiz_sessions :
          Stored(quiz_sessions'[s]) # Stored(quiz_sessions[s])
              => \/ /\ call.pc = "write" /\ call.s = s /\ call'.wrote
                    /\ Stored(quiz_sessions'[s]) = Written(call.r[1])
                 \/ /\ call' = call /\ batchRun' # <<>>
                    /\ Stored(quiz_sessions'[s]) = Written(batchRun'[1])]_vars

\* The batch procedure scored a session between the inline call's log fetch
\* and its suspicion write; the inline write then replaced all three values
\* with its own, different ones.
C36_Witness ==
    /\ call.pc = "local" /\ call.wrote
    /\ BatchRan
    /\ batchRun[1].cursor = SqlOrdered(quiz_question_logs[call.s])
    /\ Written(batchRun[1]).score # Written(call.r[1]).score
    /\ Written(batchRun[1]).summary # Written(call.r[1]).summary
    /\ Stored(quiz_sessions[call.s]) = Written(call.r[1])

\* C37: the status, score and summary of a local session change only in the
\* local update of a call whose suspicion write the store accepted, and are
\* then the values that write carried; the local update of a call whose log
\* fetch or suspicion write failed leaves the three as they were.
C37_LocalFollowsWrite ==
    [][\A s \in DOMAIN sessions :
          /\ Stored(sessions'[s]) # Stored(sessions[s])
                => call.pc = "local" /\ call.s = s /\ call.wrote /\ call.failed = "none"
          /\ (call.pc = "local" /\ call'.pc = "returned" /\ call.s = s)
                => Stored(sessions'[s]) = IF call.wrote THEN Written(call.r[1])
                                          ELSE Stored(sessions[s])]_vars

\* A call that computed a result has returned after its suspicion write
\* failed: the local session is completed and still holds no status, score
\* or summary, while another local session holds what its own call wrote.
C37_Witness ==
    /\ call.pc = "returned" /\ call.failed = "suspErr"
    /\ call.r # <<>>
    /\ sessions[call.s].status = "completed"
    /\ sessions[call.s].suspicion_status = "null"
    /\ Stored(sessions[call.s]) # Written(call.r[1])
    /\ \E s \in DOMAIN sessions :
          /\ sessions[s].suspicion_status # "null"
          /\ Stored(sessions[s]) = Stored(quiz_sessions[s])

\* C38: a call sends its log fetch only in the step in which the store
\* accepts the completion update, and the row is then completed; a refused
\* completion update makes the call throw with the store, the local sessions
\* and the scoring record as they were; a call that threw has fetched and
\* written nothing and takes no further step; the local sessions change only
\* in the local update, which a throwing call never reaches.
C38_ScoringAfterCompletion ==
    [][/\ (call'.pc = "fetch" /\ call' # call)
            => call.pc = "update" /\ quiz_sessions'[call'.s].status = "completed"
       /\ (call.pc = "update" /\ call' # call /\ call'.pc # "fetch")
            => /\ call'.pc = "threw" /\ call'.failed = "updateError"
               /\ UNCHANGED <<quiz_sessions, sessions, inlineRun>>
       /\ call'.pc = "threw"
            => call'.failed = "updateError" /\ call'.r = <<>> /\ ~call'.wrote
       /\ (call.pc = "threw" /\ call' # call)
            => call'.pc = "update" /\ UNCHANGED <<quiz_sessions, sessions, inlineRun>>
       /\ sessions' # sessions => call.pc = "local"]_vars

\* The completion update of an active session was refused and the call
\* threw: the session is active in the store and locally and holds no
\* result, while another session has been completed and scored inline.
C38_Witness ==
    /\ call.pc = "threw" /\ call.failed = "updateError"
    /\ quiz_sessions[call.s].status = "active"
    /\ sessions[call.s].status = "active"
    /\ quiz_sessions[call.s].suspicion_status = "null"
    /\ \E s \in DOMAIN sessions :
          sessions[s].status = "completed" /\ sessions[s].suspicion_status # "null"

\* C39: after each iteration of the batch loop arr_times and arr_points have
\* the same length, the smaller of the number of rows processed and 10, and
\* position j of both holds the whole-second time and the points of the
\* same row, the j-th of the most recent rows in processing order.
SqlWindowAligned(rows, k, acc) ==
    LET n == Min(k, window_size)
    IN  /\ Len(acc.arr_times) = n
        /\ Len(acc.arr_points) = n
        /\ \A j \in 1..n :
              /\ acc.arr_times[j] = NumericToInt(Coalesce(rows[k - n + j].time_spent, 0))
              /\ acc.arr_points[j] = Coalesce(rows[k - n + j].total_points_possible, 1)

RECURSIVE SqlFoldAligned(_, _, _, _)
SqlFoldAligned(rows, k, acc, v_questions) ==
    acc.raised \/
        /\ SqlWindowAligned(rows, k, acc)
        /\ k < Len(rows) =>
              SqlFoldAligned(rows, k + 1, SqlLoopBody(acc, rows[k + 1], v_questions), v_questions)

C39_WindowArraysAligned ==
    batchRun # <<>> =>
        /\ SqlFoldAligned(batchRun[1].cursor, 0, SqlAcc0, quiz_sessions[1].questions)
        /\ BatchRan => SqlWindowAligned(batchRun[1].cursor, Len(batchRun[1].cursor), batchRun[1].acc)

\* The batch procedure has scored a log of more than 10 rows: the window
\* holds 10 entries, and its first entry is no longer the first row's.
C39_Witness ==
    /\ BatchRan
    /\ Len(batchRun[1].cursor) > window_size
    /\ Len(batchRun[1].acc.arr_times) = window_size
    /\ batchRun[1].acc.arr_times[1] # NumericToInt(Coalesce(batchRun[1].cursor[1].time_spent, 0))

====
